---- MODULE Spec2Model ----
(***************************************************************************)
(* Model of the IntelliBrowse agent orchestration core:                    *)
(*   AgentService (session store + facade), AgentCommunicationProtocol     *)
(*   (the Reason-Act-Observe loop, buffered and streaming) and the action  *)
(*   parser.                                                               *)
(*                                                                         *)
(* Text is a sequence of lexemes.  A lexeme is a maximal run of characters *)
(* of one class: the literal "Action:", a run of word characters (\w+),    *)
(* one white-space character, one punctuation character, an escaped quote, *)
(* or a run of prose that holds none of the former.  String concatenation  *)
(* is sequence concatenation, the empty string is << >>.                   *)
(***************************************************************************)
EXTENDS Integers, Sequences, FiniteSets, TLC

(***************************************************************************)
(* Bounds of the model                                                     *)
(***************************************************************************)
\* call slots: the number of facade calls that can be in flight at once
MaxCalls == 2
\* facade operations started in one run
MaxOps == 2
\* facade operations and model-provider requests in one run of short
\* instructions, where the store operations have room to follow each other
MaxStoreOps == 3
MaxStoreModelCalls == 2
\* stub choices that differ from the default (a search Action and a tool
\* that returns): other replies, provider failures, tools that raise
MaxDeviations == 1
\* the stubs deviate on the first EarlyTurns turns of an instruction or on
\* its last turn, MaxTurns
EarlyTurns == 2
\* model-provider requests in one run of overlapping calls
MaxOverlapModelCalls == 3
\* model-provider requests in one run of awaited calls, beyond the MaxTurns
\* of one full instruction
ExtraModelCalls == 1
\* parameters of an action text given to the parser, and lexemes of one
\* parameter value
MaxParams == 2
MaxValueLen == 2

(***************************************************************************)
(* Program constants                                                       *)
(***************************************************************************)
\* continueConversation(maxTurns = 15); const maxTurns = 15 in the stream
MaxTurns == 15

(***************************************************************************)
(* Lexeme classes used by the regular expressions of parseToolCall         *)
(***************************************************************************)
ActionKw == "Action:"
Quote == "\""
EscQuote == "\\\""
WhiteSpace == {" ", "\n"}
WordLexemes ==
    {"browser", "parser", "document", "open", "search", "click", "type",
     "screenshot", "getHtml", "extractData", "observe", "parseScreenshot",
     "extractComponentData", "analyze", "analyzeMultiple", "compare",
     "fly", "query", "url", "none", "toString", "valueOf"}

IsWord(l) == l \in WordLexemes

(***************************************************************************)
(* The tool registry of AgentService, keys in insertion order              *)
(***************************************************************************)
Name2(ns, n) == <<ns, ".", n>>

ToolNames ==
    << Name2("browser", "open"), Name2("browser", "search"),
       Name2("browser", "click"), Name2("browser", "type"),
       Name2("browser", "screenshot"), Name2("browser", "getHtml"),
       Name2("browser", "extractData"), Name2("browser", "observe"),
       Name2("parser", "parseScreenshot"),
       Name2("parser", "extractComponentData"),
       Name2("document", "analyze"), Name2("document", "analyzeMultiple"),
       Name2("document", "compare") >>

Range(s) == {s[i] : i \in 1..Len(s)}

\* toolName is a key of the registry object
Registered(toolName) == toolName \in Range(ToolNames)

\* functions the registry, an object literal, inherits from Object.prototype
\* under names that are words
ObjectPrototype == {"toString", "valueOf"}

\* this.toolRegistry[toolName] is defined although toolName is no key of it
Inherited(toolName) ==
    /\ ~Registered(toolName)
    /\ Len(toolName) = 1
    /\ toolName[1] \in ObjectPrototype

\* Array.prototype.join
RECURSIVE Join(_, _)
Join(parts, sep) ==
    IF parts = << >> THEN << >>
    ELSE IF Len(parts) = 1 THEN parts[1]
    ELSE parts[1] \o sep \o Join(Tail(parts), sep)

(***************************************************************************)
(* getSystemPrompt: the fixed instructions with one "Tool: <name>" entry   *)
(* per registry key (the arrow functions carry no doc comment, so every    *)
(* description is empty)                                                   *)
(***************************************************************************)
ToolDescription(name) == <<"Tool: ">> \o name \o <<"\nDescription: ">>

getSystemPrompt ==
    <<"You are IntelliBrowse ... Available Tools:\n">>
    \o Join([i \in 1..Len(ToolNames) |-> ToolDescription(ToolNames[i])],
            <<"\n\n">>)
    \o <<"\n\nAlways think through your approach ...">>

(***************************************************************************)
(* parseToolCall                                                           *)
(*   the action pattern: Action: white space, a word or word.word, an      *)
(*   opening parenthesis, anything but a closing parenthesis, a closing    *)
(*   parenthesis; then, on the text between the parentheses, every         *)
(*   word = quoted value, with escaped quotes unescaped                    *)
(***************************************************************************)
NoToolCall == [toolName |-> << >>, params |-> << >>, found |-> FALSE]

\* index of the first lexeme at or after i that is not white space (\s*)
RECURSIVE SkipSpace(_, _)
SkipSpace(text, i) ==
    IF i <= Len(text) /\ text[i] \in WhiteSpace THEN SkipSpace(text, i + 1)
    ELSE i

\* index of the first ")" at or after i, 0 when there is none ([^)]*\))
RECURSIVE FindClose(_, _)
FindClose(text, i) ==
    IF i > Len(text) THEN 0
    ELSE IF text[i] = ")" THEN i
    ELSE FindClose(text, i + 1)

\* the match of the action pattern that starts at lexeme i, if any:
\* [ok, name, open] with open the index of "("
NameAt(text, i) ==
    LET j == SkipSpace(text, i + 1) IN
    IF ~(i <= Len(text) /\ text[i] = ActionKw) THEN [ok |-> FALSE]
    ELSE IF ~(j <= Len(text) /\ IsWord(text[j])) THEN [ok |-> FALSE]
    ELSE IF j + 3 <= Len(text) /\ text[j + 1] = "." /\ IsWord(text[j + 2])
            /\ text[j + 3] = "("
         THEN [ok |-> TRUE, name |-> SubSeq(text, j, j + 2), open |-> j + 3]
    ELSE IF j + 1 <= Len(text) /\ text[j + 1] = "("
         THEN [ok |-> TRUE, name |-> <<text[j]>>, open |-> j + 1]
    ELSE [ok |-> FALSE]

MatchAt(text, i) ==
    LET n == NameAt(text, i) IN
    IF ~n.ok THEN [ok |-> FALSE]
    ELSE LET close == FindClose(text, n.open + 1) IN
         IF close = 0 THEN [ok |-> FALSE]
         ELSE [ok |-> TRUE, name |-> n.name,
               args |-> SubSeq(text, n.open + 1, close - 1)]

\* end of a quoted value that starts at lexeme i: the index of the closing
\* quote, 0 when the quote is never closed (an escaped quote is one lexeme
\* and does not close the value)
RECURSIVE ValueEnd(_, _)
ValueEnd(args, i) ==
    IF i > Len(args) THEN 0
    ELSE IF args[i] = Quote THEN i
    ELSE ValueEnd(args, i + 1)

\* match[2].replace: every escaped quote becomes a quote
Unescape(value) ==
    [k \in 1..Len(value) |-> IF value[k] = EscQuote THEN Quote ELSE value[k]]

\* matchAll over the argument text, scanning from lexeme i; a later pair
\* with the same key overwrites an earlier one
RECURSIVE ParamPairs(_, _)
ParamPairs(args, i) ==
    IF i + 3 > Len(args) THEN << >>
    ELSE IF IsWord(args[i]) /\ args[i + 1] = "=" /\ args[i + 2] = Quote
            /\ ValueEnd(args, i + 3) # 0
         THEN LET e == ValueEnd(args, i + 3) IN
              << <<args[i], Unescape(SubSeq(args, i + 3, e - 1))>> >>
              \o ParamPairs(args, e + 1)
    ELSE ParamPairs(args, i + 1)

ParamsOf(pairs) ==
    [k \in {pairs[n][1] : n \in 1..Len(pairs)} |->
        LET last == CHOOSE n \in 1..Len(pairs) :
                       /\ pairs[n][1] = k
                       /\ \A m \in (n + 1)..Len(pairs) : pairs[m][1] # k
        IN pairs[last][2]]

\* the leftmost position at which the whole pattern matches
parseToolCall(response) ==
    LET hits == {i \in 1..Len(response) : MatchAt(response, i).ok} IN
    IF hits = {} THEN NoToolCall
    ELSE LET first == CHOOSE i \in hits : \A j \in hits : i <= j
             m == MatchAt(response, first)
         IN [toolName |-> m.name,
             params |-> ParamsOf(ParamPairs(m.args, 1)),
             found |-> TRUE]

\* the capture groups of a match of the action pattern: the name, the
\* optional .word of the name, the text between the parentheses; a group
\* that took no part in the match is undefined
Groups(m) ==
    << [present |-> TRUE, text |-> m.name],
       [present |-> Len(m.name) = 3,
        text |-> IF Len(m.name) = 3 THEN SubSeq(m.name, 2, 3) ELSE << >>],
       [present |-> TRUE, text |-> m.args] >>

\* actionMatch[3] is paramsString
ParamsGroup == 3

\* variant of parseToolCallRaises: the optional group before it is taken
\* for paramsString
parseToolCallRaisesOptional(response) ==
    LET hits == {i \in 1..Len(response) : MatchAt(response, i).ok} IN
    /\ hits # {}
    /\ LET first == CHOOSE i \in hits : \A j \in hits : i <= j IN
       ~Groups(MatchAt(response, first))[ParamsGroup - 1].present

\* whether parseToolCall raises: matchAll is called on paramsString, which
\* raises a TypeError when that is undefined
parseToolCallRaises(response) ==
    LET hits == {i \in 1..Len(response) : MatchAt(response, i).ok} IN
    /\ hits # {}
    /\ LET first == CHOOSE i \in hits : \A j \in hits : i <= j IN
       ~Groups(MatchAt(response, first))[ParamsGroup].present

(***************************************************************************)
(* Texts given to parseToolCall                                            *)
(***************************************************************************)
\* tool names as the model writes them: a word, or word.word
ActionNames == {<<"search">>, Name2("browser", "search")}
ParamKeys == {"query", "url"}

\* parameter values: words, spaces, commas, parentheses and double quotes
ValueLexemes == {"none", " ", ",", "(", ")", Quote}
ParamValues == UNION {[1..n -> ValueLexemes] : n \in 0..MaxValueLen}

\* lists of <<key, value>> with distinct keys
ParamLists ==
    {l \in UNION {[1..n -> ParamKeys \X ParamValues] : n \in 0..MaxParams} :
        \A i \in 1..Len(l), j \in 1..Len(l) : l[i][1] = l[j][1] => i = j}

\* a value as it is written between double quotes: every inner double
\* quote as backslash-quote
Written(value) ==
    [k \in 1..Len(value) |-> IF value[k] = Quote THEN EscQuote ELSE value[k]]

\* Action: name(key="value", key="value")
ActionText(name, list) ==
    <<ActionKw, " ">> \o name \o <<"(">>
    \o Join([i \in 1..Len(list) |->
                <<list[i][1], "=", Quote>> \o Written(list[i][2]) \o <<Quote>>],
            <<",", " ">>)
    \o <<")">>

\* one key="value" as written, whole or with a defect
PairText(pair, defect) ==
    CASE defect = "none" ->
            <<pair[1], "=", Quote>> \o Written(pair[2]) \o <<Quote>>
      [] defect = "unterminated" ->
            <<pair[1], "=", Quote>> \o Written(pair[2])
      [] defect = "unquoted" ->
            <<pair[1], "=">> \o Written(pair[2])
      [] defect = "noEquals" ->
            <<pair[1], Quote>> \o Written(pair[2]) \o <<Quote>>

Defects == {"unterminated", "unquoted", "noEquals"}

\* Action: name(...) in which the pair at index d is written with a defect
MalformedText(name, list, d, defect) ==
    <<ActionKw, " ">> \o name \o <<"(">>
    \o Join([i \in 1..Len(list) |->
                PairText(list[i], IF i = d THEN defect ELSE "none")],
            <<",", " ">>)
    \o <<")">>

ThoughtLine == <<"Thought: I need to search.", "\n">>

\* replies that hold one well-formed action, alone or after a thought
WellFormedInputs ==
    {[kind |-> "wellFormed", name |-> name, list |-> list,
      text |-> before \o ActionText(name, list)] :
        name \in ActionNames, list \in ParamLists,
        before \in {<< >>, ThoughtLine}}

\* what a reply may hold after its first Action: when that is no call
FirstForms ==
    {<<ActionKw, " ", "none", "\n">>,
     <<ActionKw, " ", "I will search the web.", "\n">>,
     <<ActionKw, " ", "search", "(", "query", "=", Quote, "none", Quote, "\n">>,
     <<ActionKw, " ", "search", "(", "query", "=", Quote, "none", Quote, ")",
       "\n">>}

\* replies that hold Action: twice, the second time as a well-formed action
TwoActionInputs ==
    {[kind |-> "twoActions", name |-> name, list |-> list,
      text |-> ThoughtLine \o first \o ActionText(name, list)] :
        name \in ActionNames, list \in {l \in ParamLists : Len(l) <= 1},
        first \in FirstForms}

\* replies that hold an action with a malformed parameter list
MalformedInputs ==
    {[kind |-> "malformed", name |-> name, list |-> at[1],
      text |-> ThoughtLine \o MalformedText(name, at[1], at[2], defect)] :
        name \in ActionNames,
        at \in {x \in ParamLists \X (1..MaxParams) : x[2] <= Len(x[1])},
        defect \in Defects}

\* replies that hold no action at all
PlainInputs ==
    {[kind |-> "plain", name |-> << >>, list |-> << >>, text |-> text] :
        text \in {<< >>, <<"Thought: done", "\n", "Answer: none">>,
                  <<"The Action was taken.">>}}

NoInput == [kind |-> "none", name |-> << >>, list |-> << >>, text |-> << >>]
NotParsed == [done |-> FALSE, raised |-> FALSE, toolCall |-> NoToolCall]


(***************************************************************************)
(* executeToolCall: the Observation texts                                  *)
(***************************************************************************)
\* variant of NotFoundText: the registry keys are left out
NotFoundTextNoList(toolName) ==
    <<"Error: Tool ", Quote>> \o toolName \o <<Quote, " not found.">>

\* `Error: Tool "${toolName}" not found. Available tools are: ${keys}`
NotFoundText(toolName) ==
    <<"Error: Tool ", Quote>> \o toolName
    \o <<Quote, " not found. Available tools are: ">>
    \o Join(ToolNames, <<",", " ">>)

\* variant of ToolErrorText: the error itself is interpolated, not its message
ToolErrorTextWholeError(toolName, message) ==
    <<"Error executing tool ">> \o toolName \o <<":", " ", "Error: ">>
    \o message

\* `Error executing tool ${toolName}: ${error.message}`
ToolErrorText(toolName, message) ==
    <<"Error executing tool ">> \o toolName \o <<":", " ">> \o message

\* what executeToolCall returns when the function it found is inherited and
\* is called without a receiver: toString returns a text, valueOf raises
InheritedObservation(toolName) ==
    IF toolName = <<"toString">> THEN <<"[object Undefined]">>
    ELSE ToolErrorText(toolName,
                       <<"Cannot convert undefined or null to object">>)

\* JSON.stringify of an object given as its list of <<key, value>> fields
JsonStringify(fields) ==
    <<"{">>
    \o Join([i \in 1..Len(fields) |->
                <<Quote, fields[i][1], Quote, ":">> \o fields[i][2]], <<",">>)
    \o <<"}">>

\* typeof result === 'object' ? JSON.stringify(result) : String(result)
Stringify(result) ==
    IF result.type = "object" THEN JsonStringify(result.fields)
    ELSE result.text

\* variant of ObservationMessage: the text is pushed without the prefix
ObservationMessageNoPrefix(observation) ==
    [role |-> "user", content |-> observation]

\* `Observation: ${observation}` as a user message
ObservationMessage(observation) ==
    [role |-> "user", content |-> <<"Observation: ">> \o observation]

AssistantMessage(text) == [role |-> "assistant", content |-> text]

(***************************************************************************)
(* The stubs: what the model provider and the tools may answer             *)
(***************************************************************************)
ReplySearch ==
    <<"Thought: I need to search.", "\n", ActionKw, " ", "browser", ".",
      "search", "(", "query", "=", Quote, "artificial intelligence news",
      Quote, ")">>
ReplyUnknown ==
    <<"Thought: try flying.", "\n", ActionKw, " ", "browser", ".", "fly",
      "(", ")">>
ReplyFinal == <<"Thought: done", "\n", "Answer: Found 3 articles.">>
ReplyEmpty == << >>
\* an Action whose name is no key of the registry but a property of it
ReplyInherited ==
    <<"Thought: try toString.", "\n", ActionKw, " ", "toString", "(", ")">>

Replies == {ReplySearch, ReplyUnknown, ReplyFinal, ReplyEmpty}
DefaultReply == ReplySearch

SearchResult ==
    [type |-> "object",
     fields |-> << <<"success", <<"true">> >>, <<"results", <<"3">> >> >>]
TextResult == [type |-> "string", text |-> <<"done">>]
ToolResults == {SearchResult, TextResult}
DefaultResult == SearchResult

\* error.message of what a tool raises
ToolFailures == {<<"Failed to search: timeout">>}

\* values a tool may throw that carry no message property to read
BareThrows == {"null", "undefined"}

\* the TypeError of reading .message of such a value
TypeErrorText(thrown) ==
    <<"Cannot read properties of ", thrown, " (reading 'message')">>

\* a result JSON.stringify refuses, and the TypeError it throws
CyclicResult == [type |-> "object", cyclic |-> TRUE]
StringifyError == <<"Converting circular structure to JSON">>

\* error.message of a failed provider request
ProviderError == <<"Fireworks API error: quota">>

\* the deltas of a streamed reply: a first delta that carries the role and
\* no content, then the text in two parts (an empty text in one empty part)
Delta(text) == [hasContent |-> TRUE, content |-> text]
RoleDelta == [hasContent |-> FALSE, content |-> << >>]

Chunks(reply) ==
    IF Len(reply) <= 1 THEN <<RoleDelta, Delta(reply)>>
    ELSE LET k == (Len(reply) + 1) \div 2 IN
         <<RoleDelta, Delta(SubSeq(reply, 1, k)),
           Delta(SubSeq(reply, k + 1, Len(reply)))>>

\* chunk.choices[0].delta.content is truthy
HasContent(delta) == delta.hasContent /\ delta.content # << >>

(***************************************************************************)
(* Values of the instruction argument                                      *)
(***************************************************************************)
Str(text) == [type |-> "string", text |-> text]
Absent == [type |-> "undefined", text |-> << >>]
NotAString == [type |-> "number", text |-> << >>]
InstrSearch == Str(<<"Search for artificial intelligence news">>)
InstrOther == Str(<<"Open the home page">>)
InvalidInstructions == {Absent, Str(<< >>), NotAString}

\* !instruction
Falsy(v) == v.type = "undefined" \/ (v.type = "string" /\ v.text = << >>)

\* session ids: "" is an absent id
NoId == ""
UnknownId == "session-unknown"
SessionIdOf(n) == "session-" \o ToString(n)


(***************************************************************************)
(* FireworksClient: the mock completion and the MIME type of a buffer      *)
(***************************************************************************)
\* message contents, character by character
MaxWords == 2
MaxMessages == 2

Words ==
    {<<"S", "e", "a", "r", "c", "h">>,
     <<"r", "e", "s", "e", "a", "r", "c", "h">>,
     <<"n", "a", "v", "i", "g", "a", "t", "e">>,
     <<"G", "o">>,
     <<" ">>,
     <<"t", "o">>,
     <<"c", "l", "i", "c", "k">>,
     <<"t", "y", "p", "e">>,
     <<"c", "e", "n", "t", "e", "r">>,
     <<"s", "c", "r", "e", "e", "n", "s", "h", "o", "t">>,
     <<"n", "e", "w", "s">>}

RECURSIVE Flatten(_)
Flatten(parts) ==
    IF parts = << >> THEN << >> ELSE Head(parts) \o Flatten(Tail(parts))

Contents == {Flatten(ws) : ws \in UNION {[1..n -> Words] : n \in 0..MaxWords}}

Roles == {"system", "user", "assistant"}

MessageLists ==
    UNION {[1..n -> [role : Roles, content : Contents]] : n \in 0..MaxMessages}

\* String.prototype.toLowerCase, on the letters the contents hold
LowerChar(ch) ==
    CASE ch = "S" -> "s"
      [] ch = "G" -> "g"
      [] OTHER -> ch

toLowerCase(text) == [i \in 1..Len(text) |-> LowerChar(text[i])]

\* String.prototype.includes
includes(text, piece) ==
    \E i \in 1..(Len(text) - Len(piece) + 1) :
        SubSeq(text, i, i + Len(piece) - 1) = piece

KwSearch == <<"s", "e", "a", "r", "c", "h">>
KwNavigate == <<"n", "a", "v", "i", "g", "a", "t", "e">>
KwGoTo == <<"g", "o", " ", "t", "o">>
KwClick == <<"c", "l", "i", "c", "k">>
KwType == <<"t", "y", "p", "e">>
KwEnter == <<"e", "n", "t", "e", "r">>
KwScreenshot == <<"s", "c", "r", "e", "e", "n", "s", "h", "o", "t">>

\* variant of UserMessage: the latest user message is taken
UserMessageLatest(messages) ==
    LET idx == {i \in 1..Len(messages) : messages[i].role = "user"} IN
    IF idx = {} THEN [defined |-> TRUE, text |-> << >>]
    ELSE [defined |-> TRUE,
          text |-> messages[CHOOSE i \in idx : \A j \in idx : j <= i].content]

\* variant of UserMessage: no text stands in for a missing user message
UserMessageNoDefault(messages) ==
    LET idx == {i \in 1..Len(messages) : messages[i].role = "user"} IN
    IF idx = {} THEN [defined |-> FALSE, text |-> << >>]
    ELSE [defined |-> TRUE,
          text |-> messages[CHOOSE i \in idx : \A j \in idx : i <= j].content]

\* options.messages.find(m => m.role === 'user')?.content || ''
UserMessage(messages) ==
    LET idx == {i \in 1..Len(messages) : messages[i].role = "user"} IN
    IF idx = {} THEN [defined |-> TRUE, text |-> << >>]
    ELSE [defined |-> TRUE,
          text |-> messages[CHOOSE i \in idx : \A j \in idx : i <= j].content]

\* the replies of the mock, as lexemes
MockReply(thought, name, args) ==
    <<"Thought:", thought, "\n", ActionKw, " ", "browser", ".", name, "(">>
    \o args \o <<")">>

MockSearch ==
    MockReply(" I need to search for information on the web.", "search",
              <<"query", "=", Quote, "artificial intelligence news", Quote>>)
MockOpen ==
    MockReply(" I need to navigate to a specific website.", "open",
              <<"url", "=", Quote, "https://www.example.com", Quote>>)
MockClick ==
    MockReply(" I need to click on an element on the page.", "click",
              <<"selector", "=", Quote, "Sign in button", Quote>>)
MockType ==
    MockReply(" I need to enter some text into a field.", "type",
              <<"selector", "=", Quote, "Email field", Quote, ",", " ",
                "text", "=", Quote, "example@example.com", Quote>>)
MockScreenshot ==
    MockReply(" I need to take a screenshot of the current page.",
              "screenshot", << >>)
MockOther ==
    MockReply(" I need to understand what the user wants me to do. ...",
              "search", <<"query", "=", Quote, "example search query", Quote>>)

\* the if-else chain of generateMockCompletion on the lowered user message
MockContent(userMessage) ==
    LET low == toLowerCase(userMessage) IN
    IF includes(low, KwSearch) THEN MockSearch
    ELSE IF includes(low, KwNavigate) \/ includes(low, KwGoTo) THEN MockOpen
    ELSE IF includes(low, KwClick) THEN MockClick
    ELSE IF includes(low, KwType) \/ includes(low, KwEnter) THEN MockType
    ELSE IF includes(low, KwScreenshot) THEN MockScreenshot
    ELSE MockOther

MockReplies ==
    {MockSearch, MockOpen, MockClick, MockType, MockScreenshot, MockOther}

\* parseToolCall, tabulated over the replies of the stubs and of the mock
ParsedReplies == [r \in Replies \cup MockReplies |-> parseToolCall(r)]

Parse(text) ==
    IF text \in DOMAIN ParsedReplies THEN ParsedReplies[text]
    ELSE parseToolCall(text)

\* responseContent.split(/(?<=\n)/) after its first piece
RECURSIVE SplitRest(_)
SplitRest(text) ==
    LET nl == {i \in 1..Len(text) : text[i] = "\n"} IN
    IF text = << >> THEN << >>
    ELSE IF nl = {} THEN <<text>>
    ELSE LET k == CHOOSE i \in nl : \A j \in nl : i <= j IN
         <<SubSeq(text, 1, k)>> \o SplitRest(SubSeq(text, k + 1, Len(text)))

\* the chunks of generateMockCompletionStream: one delta with content per
\* piece of the reply that ends with a newline
MockChunks(reply) ==
    LET pieces == IF reply = << >> THEN << << >> >> ELSE SplitRest(reply) IN
    [i \in 1..Len(pieces) |-> [hasContent |-> TRUE, content |-> pieces[i]]]

NoCompletion == [choices |-> << >>]

\* generateMockCompletion: [raised, completion]; toLowerCase of an
\* undefined user message raises a TypeError, which createChatCompletion
\* catches in mock mode only to call generateMockCompletion again
generateMockCompletion(messages) ==
    LET user == UserMessage(messages) IN
    IF ~user.defined THEN [raised |-> TRUE, completion |-> NoCompletion]
    ELSE [raised |-> FALSE,
          completion |->
              [choices |->
                  << [index |-> 0,
                      message |-> [role |-> "assistant",
                                   content |-> MockContent(user.text)],
                      finish_reason |-> "stop"] >>]]

NoMessages == << >>
NotCompleted == [done |-> FALSE, raised |-> FALSE, completion |-> NoCompletion]

\* buffers: up to MaxBufferLen bytes, drawn from the bytes of the
\* signatures and two others
MaxBufferLen == 4

SampleBytes == {255, 216, 137, 80, 78, 71, 37, 68, 70, 0, 1}

Buffers == UNION {[1..n -> SampleBytes] : n \in 0..MaxBufferLen}

\* buffer[i] of the code is ByteAt(buffer, i + 1); an index past the end
\* gives undefined, which equals no byte
UndefinedByte == 0 - 1

ByteAt(buffer, k) == IF k <= Len(buffer) THEN buffer[k] ELSE UndefinedByte

\* variant of detectMimeType: only the first byte of a JPEG is looked at
detectMimeTypeFirstByte(buffer) ==
    IF ByteAt(buffer, 1) = 255 THEN "image/jpeg"
    ELSE IF /\ ByteAt(buffer, 1) = 137 /\ ByteAt(buffer, 2) = 80
            /\ ByteAt(buffer, 3) = 78 /\ ByteAt(buffer, 4) = 71
         THEN "image/png"
    ELSE IF /\ ByteAt(buffer, 1) = 37 /\ ByteAt(buffer, 2) = 80
            /\ ByteAt(buffer, 3) = 68 /\ ByteAt(buffer, 4) = 70
         THEN "application/pdf"
    ELSE "application/octet-stream"

detectMimeType(buffer) ==
    IF ByteAt(buffer, 1) = 255 /\ ByteAt(buffer, 2) = 216 THEN "image/jpeg"
    ELSE IF /\ ByteAt(buffer, 1) = 137 /\ ByteAt(buffer, 2) = 80
            /\ ByteAt(buffer, 3) = 78 /\ ByteAt(buffer, 4) = 71
         THEN "image/png"
    ELSE IF /\ ByteAt(buffer, 1) = 37 /\ ByteAt(buffer, 2) = 80
            /\ ByteAt(buffer, 3) = 68 /\ ByteAt(buffer, 4) = 70
         THEN "application/pdf"
    ELSE "application/octet-stream"

NoBuffer == <<UndefinedByte>>
NotDetected == "none"


(***************************************************************************)
(* State                                                                   *)
(***************************************************************************)
VARIABLES
    sessions,     \* AgentService.sessions: the ids that are keys of the map
    agents,       \* messageHistory of every AgentCommunicationProtocol
                  \* constructed so far, by its sessionId
    nextId,       \* number of agents constructed so far
    initialized,  \* AgentService.initialized
    calls,        \* the facade calls in flight or finished, one per slot
    lastInfo,     \* outcome of getSessionInfo or cleanupSession when it was
                  \* the latest operation
    overlap,      \* whether callers send overlapping requests
    twin,         \* whether the stubs are deterministic: one answer per
                  \* transcript, and finished calls are kept for comparison
    stub,         \* the answers the deterministic stubs have given so far,
                  \* by transcript
    opsLeft,      \* facade operations still to be started
    devLeft,      \* deviations the stubs may still make
    modelLeft,    \* model-provider requests still to be issued
    given,        \* a text given to parseToolCall on its own
    parsed,       \* what parseToolCall has returned for it
    messages,     \* a message list given to the mock provider on its own
    completion,   \* what createChatCompletion has returned for it
    buffer,       \* a buffer given to detectMimeType on its own
    mimeType,     \* what detectMimeType has returned for it
    browser       \* the shared BrowserAutomation and the browser tools that
                  \* are dispatched to it

vars == <<sessions, agents, nextId, initialized, calls, lastInfo, overlap,
          twin, stub, opsLeft, devLeft, modelLeft, given, parsed,
          messages, completion, buffer, mimeType, browser>>

\* the client functions and the browser backend, exercised on their own
client == <<messages, completion, buffer, mimeType, browser>>

env == <<overlap, twin, given, parsed, client>>

Slots == 1..MaxCalls

(***************************************************************************)
(* The shared browser backend                                              *)
(***************************************************************************)
\* tool dispatches in flight, Stagehand instances and closes
MaxDispatches == 2
MaxInstances == 3
MaxCloses == 1

Dispatches == 1..MaxDispatches

\* JavaScript values handed to the backend
StringValue(text) == [type |-> "string", text |-> text]
ObjectValue(fields) == [type |-> "object", fields |-> fields]
UndefinedValue == [type |-> "undefined"]

\* the browser actions a parsed reply may hold, with their params
BrowserToolCalls ==
    {[method |-> "search",
      params |-> [query |-> <<"artificial intelligence news">>]],
     [method |-> "open",
      params |-> [url |-> <<"https://www.example.com">>]],
     [method |-> "click",
      params |-> [selector |-> <<"the first result">>]],
     [method |-> "type",
      params |-> [selector |-> <<"the search box">>,
                  text |-> <<"news">>]]}

IdleDispatch ==
    [pc |-> "idle", method |-> "", params |-> << >>,
     \* the Stagehand instance whose init() the dispatch awaits
     mine |-> 0,
     \* the parameters the backend method was called with
     first |-> UndefinedValue, second |-> UndefinedValue,
     \* the instance whose page the method body used
     page |-> 0]

\* the BrowserAutomation after its constructor
NewBrowser(mock) ==
    [mock |-> mock,
     initialized |-> FALSE,
     \* this.stagehand and this.page, by the number of the instance
     stagehand |-> 0, page |-> 0,
     \* instances constructed so far, those whose init() has resolved and
     \* those whose init() has rejected
     made |-> 0, ready |-> {}, broken |-> {},
     \* initializations started since the constructor or the latest close
     started |-> {},
     closing |-> FALSE, closes |-> 0,
     dispatch |-> [d \in Dispatches |-> IdleDispatch]]

\* (...args) of a registry function that executeToolCall calls as
\* tool(params)
RestArgs(params) == <<ObjectValue(params)>>

\* the n-th parameter of a method called with ...args
Arg(args, n) == IF n <= Len(args) THEN args[n] ELSE UndefinedValue

\* everything but the browser backend
service == <<sessions, agents, nextId, initialized, calls, lastInfo,
             overlap, twin, stub, opsLeft, devLeft, modelLeft, given,
             parsed, messages, completion, buffer, mimeType>>

\* BrowserAutomation.initialize up to its first await, run for dispatch d
\* with `after` as the place it returns to
initialize(b, d, after) ==
    IF b.initialized
    THEN [b EXCEPT !.dispatch[d].pc = after]
    ELSE IF b.mock
    THEN [b EXCEPT !.initialized = TRUE,
                   !.started = @ \cup {0},
                   !.dispatch[d].pc = after]
    ELSE [b EXCEPT !.stagehand = b.made + 1,
                   !.made = @ + 1,
                   !.started = @ \cup {b.made + 1},
                   !.dispatch[d].mine = b.made + 1,
                   !.dispatch[d].pc = "awaitInit"]

\* where a dispatch goes on after the initialization it awaits
AfterInit(dispatch) == IF dispatch.first.type = "undefined"
                       THEN "ensured" ELSE "entered"

\* executeToolCall calls a browser tool of the registry: the function
\* awaits ensureBrowserInitialized
DispatchBrowserTool ==
    \E d \in Dispatches, toolCall \in BrowserToolCalls :
        /\ browser.dispatch[d].pc = "idle"
        /\ \A e \in 1..(d - 1) : browser.dispatch[e].pc # "idle"
        /\ browser.initialized \/ browser.mock
              \/ browser.made < MaxInstances
        /\ browser' = initialize(
               [browser EXCEPT !.dispatch[d].method = toolCall.method,
                               !.dispatch[d].params = toolCall.params],
               d, "ensured")
        /\ UNCHANGED service

\* stagehand.init() resolves: this.page = this.stagehand.page
InitResolves ==
    \E d \in Dispatches :
        /\ browser.dispatch[d].pc = "awaitInit"
        /\ browser' = [browser EXCEPT
               !.ready = @ \cup {browser.dispatch[d].mine},
               !.page = browser.stagehand,
               !.initialized = TRUE,
               !.dispatch[d].pc = AfterInit(browser.dispatch[d])]
        /\ UNCHANGED service

\* stagehand.init() rejects: initialize throws and the tool fails
InitRejects ==
    \E d \in Dispatches :
        /\ browser.dispatch[d].pc = "awaitInit"
        /\ browser' = [browser EXCEPT
               !.broken = @ \cup {browser.dispatch[d].mine},
               !.dispatch[d].pc = "failed"]
        /\ UNCHANGED service

\* the registry function calls the backend method with ...args; the method
\* awaits ensureInitialized
CallBackend ==
    \E d \in Dispatches :
        LET args == RestArgs(browser.dispatch[d].params) IN
        /\ browser.dispatch[d].pc = "ensured"
        /\ browser.initialized \/ browser.mock
              \/ browser.made < MaxInstances
        /\ browser' = initialize(
               [browser EXCEPT !.dispatch[d].first = Arg(args, 1),
                               !.dispatch[d].second = Arg(args, 2)],
               d, "entered")
        /\ UNCHANGED service

\* the body of the backend method: the remote build acts on this.page
RunBody ==
    \E d \in Dispatches :
        /\ browser.dispatch[d].pc = "entered"
        /\ browser' =
              IF browser.mock
              THEN [browser EXCEPT !.dispatch[d].pc = "done"]
              ELSE IF browser.page = 0
              THEN [browser EXCEPT !.dispatch[d].pc = "failed"]
              ELSE [browser EXCEPT !.dispatch[d].page = browser.page,
                                   !.dispatch[d].pc = "done"]
        /\ UNCHANGED service

\* BrowserAutomation.close up to its await
CloseBegins ==
    /\ browser.closes < MaxCloses
    /\ ~browser.closing
    /\ browser' =
          IF browser.mock
          THEN [browser EXCEPT !.initialized = FALSE, !.started = {},
                               !.closes = @ + 1]
          ELSE IF browser.stagehand # 0
          THEN [browser EXCEPT !.closing = TRUE, !.closes = @ + 1]
          ELSE [browser EXCEPT !.closes = @ + 1]
    /\ UNCHANGED service

\* stagehand.close() resolves
CloseResolves ==
    /\ browser.closing
    /\ browser' = [browser EXCEPT !.closing = FALSE,
                                  !.initialized = FALSE,
                                  !.page = 0,
                                  !.started = {}]
    /\ UNCHANGED service

NextBrowser ==
    \/ DispatchBrowserTool
    \/ InitResolves
    \/ InitRejects
    \/ CallBackend
    \/ RunBody
    \/ CloseBegins
    \/ CloseResolves

NoInfo == [status |-> "none", sessionId |-> NoId, messageHistory |-> << >>]

IdleCall ==
    [pc |-> "idle", mode |-> "none", supplied |-> NoId, agent |-> NoId,
     created |-> FALSE, instruction |-> Absent, turns |-> 0,
     finalSet |-> FALSE, finalResponse |-> << >>,
     streamOpen |-> FALSE, pending |-> << >>, assistantResponse |-> << >>,
     toolCall |-> NoToolCall, events |-> << >>,
     result |-> << >>, error |-> << >>,
     modelCalls |-> 0, dispatches |-> 0, toolRuns |-> 0,
     \* the messages of the latest request to the provider
     sent |-> << >>,
     \* whether the client of the stream has closed its connection
     closed |-> FALSE,
     \* the HTTP response of a streamed call: the events written to it, how
     \* many events of the stream the handler has read, and whether the
     \* response has ended
     written |-> << >>, read |-> 0, ended |-> FALSE,
     \* bookkeeping for the properties: the history of the session when the
     \* call started, the number of the operation that started the call,
     \* and how the latest awaited tool settled
     before |-> << >>, op |-> 0, outcome |-> "none", raised |-> << >>]

Active(call) ==
    call.pc \in {"awaitModel", "awaitChunk", "atToolCall", "awaitTool",
                 "atComplete"}

\* the slot a new call takes: the lowest one that holds no call in flight;
\* when finished calls are kept, the lowest unused one while there is one
Takeable(c) ==
    /\ ~Active(calls[c])
    /\ (twin /\ \E d \in Slots : calls[d].pc = "idle") => calls[c].pc = "idle"

FreeSlot(c) == Takeable(c) /\ \A d \in 1..(c - 1) : ~Takeable(d)

\* callers await a response before the next instruction unless they overlap
MayStart == overlap \/ \A c \in Slots : ~Active(calls[c])

\* the instructions callers send
Instructions ==
    InvalidInstructions
    \cup (IF overlap THEN {InstrSearch, InstrOther} ELSE {InstrSearch})

InitService ==
    /\ sessions = {}
    /\ agents = << >>
    /\ nextId = 0
    /\ initialized = FALSE
    /\ calls = [c \in Slots |-> IdleCall]
    /\ lastInfo = NoInfo
    /\ devLeft = MaxDeviations
    /\ stub = << >>
    /\ parsed = NotParsed
    /\ completion = NotCompleted
    /\ mimeType = NotDetected

InitCommon ==
    /\ InitService
    /\ browser = NewBrowser(TRUE)

\* no caller: browser tools dispatched to the shared backend, in a build
\* with the mock backend or with the remote one
InitBrowser ==
    /\ InitService
    /\ \E mock \in BOOLEAN : browser = NewBrowser(mock)
    /\ given = NoInput
    /\ messages = NoMessages
    /\ buffer = NoBuffer
    /\ overlap = FALSE
    /\ twin = FALSE
    /\ opsLeft = 0
    /\ modelLeft = 0

\* callers that await each response
Init ==
    /\ InitCommon
    /\ given = NoInput
    /\ messages = NoMessages
    /\ buffer = NoBuffer
    /\ overlap = FALSE
    /\ twin = FALSE
    /\ opsLeft = MaxOps
    /\ modelLeft = MaxTurns + ExtraModelCalls

\* no caller: a reply by itself, handed to the parser
InitParse ==
    /\ InitCommon
    /\ given \in WellFormedInputs \cup TwoActionInputs \cup MalformedInputs
                \cup PlainInputs
    /\ messages = NoMessages
    /\ buffer = NoBuffer
    /\ overlap = FALSE
    /\ twin = FALSE
    /\ opsLeft = 0
    /\ modelLeft = 0

\* no caller: a message list by itself, handed to the provider in mock mode
InitMock ==
    /\ InitCommon
    /\ given = NoInput
    /\ messages \in MessageLists
    /\ buffer = NoBuffer
    /\ overlap = FALSE
    /\ twin = FALSE
    /\ opsLeft = 0
    /\ modelLeft = 0

\* no caller: a buffer by itself, handed to detectMimeType
InitMime ==
    /\ InitCommon
    /\ given = NoInput
    /\ messages = NoMessages
    /\ buffer \in Buffers
    /\ overlap = FALSE
    /\ twin = FALSE
    /\ opsLeft = 0
    /\ modelLeft = 0

\* callers that await each response, with requests enough for every
\* instruction to use all its turns
InitLive ==
    /\ InitCommon
    /\ given = NoInput
    /\ messages = NoMessages
    /\ buffer = NoBuffer
    /\ overlap = FALSE
    /\ twin = FALSE
    /\ opsLeft = MaxOps
    /\ modelLeft = MaxOps * MaxTurns

\* callers that await each response and send short instructions
InitStore ==
    /\ InitCommon
    /\ given = NoInput
    /\ messages = NoMessages
    /\ buffer = NoBuffer
    /\ overlap = FALSE
    /\ twin = FALSE
    /\ opsLeft = MaxStoreOps
    /\ modelLeft = MaxStoreModelCalls

\* callers that send overlapping requests and short instructions
InitIsolation ==
    /\ InitCommon
    /\ given = NoInput
    /\ messages = NoMessages
    /\ buffer = NoBuffer
    /\ overlap = TRUE
    /\ twin = FALSE
    /\ opsLeft = MaxStoreOps
    /\ modelLeft = MaxStoreModelCalls

\* callers that send overlapping requests
InitOverlap ==
    /\ InitCommon
    /\ given = NoInput
    /\ messages = NoMessages
    /\ buffer = NoBuffer
    /\ overlap = TRUE
    /\ twin = FALSE
    /\ opsLeft = MaxOps
    /\ modelLeft = MaxOverlapModelCalls

\* callers that await each response, deterministic stubs, enough requests
\* for two full instructions
InitTwin ==
    /\ InitCommon
    /\ given = NoInput
    /\ messages = NoMessages
    /\ buffer = NoBuffer
    /\ overlap = FALSE
    /\ twin = TRUE
    /\ opsLeft = MaxOps
    /\ modelLeft = MaxTurns + MaxTurns

(***************************************************************************)
(* Events of the stream                                                    *)
(***************************************************************************)
SessionEvent(id) == [type |-> "session", sessionId |-> id]
AssistantEvent(content) == [type |-> "assistant", content |-> content]
\* variant of ToolCallEvent: the parameters are left out
ToolCallEventNameOnly(tc) ==
    [type |-> "toolCall", tool |-> tc.toolName, params |-> << >>]

ToolCallEvent(tc) == [type |-> "toolCall", tool |-> tc.toolName, params |-> tc.params]
ObservationEvent(content) == [type |-> "observation", content |-> content]
CompleteEvent(content) == [type |-> "complete", content |-> content]
ErrorEvent(content) == [type |-> "error", content |-> content]

ExhaustedNote == <<"\n\n[Note: Maximum conversation turns reached]">>
ExhaustedFallback == <<"Maximum conversation turns reached without a final answer.">>
ExhaustedError == <<"Maximum conversation turns reached.">>

(***************************************************************************)
(* continueConversation                                                    *)
(***************************************************************************)
\* variant of RequestMessages: only the latest message is sent
RequestMessagesLatest(hist) == <<hist[Len(hist)]>>

\* messages: this.messageHistory in the options of a request
RequestMessages(hist) == hist

\* !finalResponse
NoFinalResponse(call) == ~call.finalSet \/ call.finalResponse = << >>

\* variant of BufferedContinues: the loop test is off by one
BufferedContinuesOffByOne(call) ==
    NoFinalResponse(call) /\ call.turns <= MaxTurns

\* while (!finalResponse && turns < maxTurns)
BufferedContinues(call) == NoFinalResponse(call) /\ call.turns < MaxTurns

\* variant of BufferedResult: the first assistant message is taken
BufferedResultFirstAssistant(call, hist) ==
    LET idx == {i \in 1..Len(hist) : hist[i].role = "assistant"} IN
    IF ~NoFinalResponse(call) THEN call.finalResponse
    ELSE IF idx # {}
         THEN hist[CHOOSE i \in idx : \A j \in idx : i <= j].content
              \o ExhaustedNote
    ELSE ExhaustedFallback

\* the text returned after the loop
BufferedResult(call, hist) ==
    LET idx == {i \in 1..Len(hist) : hist[i].role = "assistant"} IN
    IF ~NoFinalResponse(call) THEN call.finalResponse
    ELSE IF idx # {}
         THEN hist[CHOOSE i \in idx : \A j \in idx : j <= i].content
              \o ExhaustedNote
    ELSE ExhaustedFallback

\* the head of the loop, after a turn or at the start: a new turn with a
\* request to the provider, or the return
BufferedLoop(call, hist) ==
    IF BufferedContinues(call)
    THEN [call EXCEPT !.turns = @ + 1, !.modelCalls = @ + 1,
                      !.sent = RequestMessages(hist),
                      !.pc = "awaitModel"]
    ELSE [call EXCEPT !.pc = "done", !.result = BufferedResult(call, hist)]

(***************************************************************************)
(* processInstructionStream of the agent                                   *)
(***************************************************************************)
\* variant of StreamContinues: the loop has no turn bound
StreamContinuesAlways(call) == TRUE

\* while (turns < maxTurns)
StreamContinues(call) == call.turns < MaxTurns

\* if (turns >= maxTurns) after the loop
StreamExhausted(call) == call.turns >= MaxTurns

\* the code after the loop: the exhaustion event, then the end
StreamAfterLoop(call) ==
    [call EXCEPT !.pc = "done",
                 !.events = IF StreamExhausted(call)
                            THEN Append(@, ErrorEvent(ExhaustedError))
                            ELSE @]

\* the head of the loop: a new turn with a streamed request, or the end
StreamLoop(call, hist) ==
    IF StreamContinues(call)
    THEN [call EXCEPT !.turns = @ + 1, !.modelCalls = @ + 1,
                      !.sent = RequestMessages(hist),
                      !.pc = "awaitChunk", !.streamOpen = FALSE,
                      !.pending = << >>, !.assistantResponse = << >>]
    ELSE StreamAfterLoop(call)

(***************************************************************************)
(* Bookkeeping of the budgets                                              *)
(***************************************************************************)
Requests(old, new) == new.modelCalls - old.modelCalls

\* a step that takes the call of slot c from `old` to `new`, issuing the
\* requests that `new` counts beyond those of `old`
AdvanceFrom(c, old, new) ==
    /\ Requests(old, new) <= modelLeft
    /\ modelLeft' = modelLeft - Requests(old, new)
    /\ calls' = [calls EXCEPT ![c] = new]

Advance(c, new) == AdvanceFrom(c, calls[c], new)


(***************************************************************************)
(* AgentService: the session store and the facade                          *)
(***************************************************************************)
RequiredError == <<"Instruction is required">>
NotAStringError == <<"Instruction must be a non-empty string">>

\* ids a caller may send: none, one the service never issued, or one it issued
SuppliedIds == {NoId, UnknownId} \cup DOMAIN agents

\* variant of Resolve: the supplied id is not looked up
ResolveIgnoresId(sid) ==
    [agent |-> SessionIdOf(nextId + 1), created |-> TRUE]

\* variant of Resolve: an id the store does not hold becomes the key of
\* the new session
ResolveKeepsSupplied(sid) ==
    IF sid # NoId /\ sid \in sessions
    THEN [agent |-> sid, created |-> FALSE]
    ELSE IF sid # NoId
    THEN [agent |-> sid, created |-> TRUE]
    ELSE [agent |-> SessionIdOf(nextId + 1), created |-> TRUE]

\* variant of Resolve: an agent that was removed from the store is found
\* again and stored again
ResolveRevives(sid) ==
    IF sid # NoId /\ sid \in DOMAIN agents
    THEN [agent |-> sid, created |-> FALSE]
    ELSE [agent |-> SessionIdOf(nextId + 1), created |-> TRUE]

\* if (sessionId && this.sessions.has(sessionId)) ... else new agent
Resolve(sid) ==
    IF sid # NoId /\ sid \in sessions
    THEN [agent |-> sid, created |-> FALSE]
    ELSE [agent |-> SessionIdOf(nextId + 1), created |-> TRUE]

\* variant of SetHistory: every agent holds the same messageHistory array
SetHistoryShared(id, hist) == [x \in DOMAIN agents \cup {id} |-> hist]

\* this.messageHistory of the agent `id` becomes `hist`
SetHistory(id, hist) ==
    [x \in DOMAIN agents \cup {id} |-> IF x = id THEN hist ELSE agents[x]]

\* the messages processUserInstruction and processInstructionStream start with
InitialHistory(instr) ==
    << [role |-> "system", content |-> getSystemPrompt],
       [role |-> "user", content |-> instr.text] >>

\* variant of FacadeRejects: only an absent instruction is refused
FacadeRejectsAbsentOnly(instr) == instr.type = "undefined"

\* if (!instruction) in processInstruction and processInstructionStream
FacadeRejects(instr) == Falsy(instr)

\* !instruction || typeof instruction !== 'string'
AgentRejects(instr) == Falsy(instr) \/ instr.type # "string"

\* variant of InitialTurns: the count goes on from the turns the session
\* has already taken
InitialTurnsOfSession(hist) ==
    Cardinality({i \in 1..Len(hist) : hist[i].role = "assistant"})

\* let turns = 0 at the start of continueConversation and of the stream
InitialTurns(hist) == 0

\* the number of the facade operation that starts next
nextOp == MaxStoreOps - opsLeft + 1

\* the common part of processInstruction and processInstructionStream:
\* validation, get-or-create, the agent's own validation, the first turn
StartCall(c, mode, sid, instr) ==
    LET r == Resolve(sid)
        base == [IdleCall EXCEPT !.mode = mode, !.instruction = instr,
                                 !.supplied = sid,
                                 !.op = nextOp]
        entered == [base EXCEPT
                       !.agent = r.agent, !.created = r.created,
                       !.before = IF r.created THEN << >> ELSE agents[r.agent],
                       !.turns = InitialTurns(IF r.created THEN << >>
                                              ELSE agents[r.agent]),
                       !.events = IF mode = "stream" /\ r.created
                                  THEN <<SessionEvent(r.agent)>> ELSE << >>]
        hist == InitialHistory(instr)
    IN
    /\ opsLeft > 0
    /\ MayStart
    /\ FreeSlot(c)
    /\ opsLeft' = opsLeft - 1
    /\ initialized' = TRUE
    /\ lastInfo' = NoInfo
    /\ UNCHANGED <<env, stub, devLeft>>
    /\ IF FacadeRejects(instr)
       THEN /\ calls' = [calls EXCEPT ![c] =
                            [base EXCEPT !.pc = "rejected", !.error = RequiredError]]
            /\ UNCHANGED <<sessions, agents, nextId, modelLeft>>
       ELSE /\ sessions' = sessions \cup {r.agent}
            /\ nextId' = IF r.created THEN nextId + 1 ELSE nextId
            /\ IF AgentRejects(instr)
               THEN /\ calls' = [calls EXCEPT ![c] =
                                    [entered EXCEPT !.pc = "rejected",
                                                    !.error = NotAStringError]]
                    /\ agents' = IF r.created THEN SetHistory(r.agent, << >>)
                                 ELSE agents
                    /\ UNCHANGED modelLeft
               ELSE /\ agents' = SetHistory(r.agent, hist)
                    /\ AdvanceFrom(c, entered,
                                   IF mode = "buffered"
                                   THEN BufferedLoop(entered, hist)
                                   ELSE StreamLoop(entered, hist))

\* return { sessionId, response } of processInstruction
Returned(call) == [sessionId |-> call.agent, response |-> call.result]

ProcessInstruction ==
    \E c \in Slots, sid \in SuppliedIds, instr \in Instructions :
        StartCall(c, "buffered", sid, instr)

ProcessInstructionStream ==
    \E c \in Slots, sid \in SuppliedIds, instr \in Instructions :
        StartCall(c, "stream", sid, instr)

CreateSession ==
    /\ opsLeft > 0
    /\ MayStart
    /\ opsLeft' = opsLeft - 1
    /\ sessions' = sessions \cup {SessionIdOf(nextId + 1)}
    /\ agents' = SetHistory(SessionIdOf(nextId + 1), << >>)
    /\ nextId' = nextId + 1
    /\ lastInfo' = NoInfo
    /\ UNCHANGED <<initialized, calls, env, stub, devLeft, modelLeft>>

\* variant of getSessionInfo: every agent ever constructed is found
getSessionInfoOfAnyAgent(sid) ==
    IF sid = NoId \/ sid \notin DOMAIN agents
    THEN [status |-> "notFound", sessionId |-> sid, messageHistory |-> << >>]
    ELSE [status |-> "ok", sessionId |-> sid, messageHistory |-> agents[sid]]

\* the value getSessionInfo returns or the failure it raises
getSessionInfo(sid) ==
    IF sid = NoId \/ sid \notin sessions
    THEN [status |-> "notFound", sessionId |-> sid, messageHistory |-> << >>]
    ELSE [status |-> "ok", sessionId |-> sid, messageHistory |-> agents[sid]]

GetSessionInfo ==
    \E sid \in SuppliedIds :
        /\ opsLeft > 0
        /\ MayStart
        /\ opsLeft' = opsLeft - 1
        /\ lastInfo' = getSessionInfo(sid)
        /\ UNCHANGED <<sessions, agents, nextId, initialized, calls, env,
                       stub, devLeft, modelLeft>>

\* variant of cleanupSession: the whole store is cleared
cleanupSessionClears(store, sid) ==
    IF sid # NoId /\ sid \in store THEN {} ELSE store

\* the store after cleanupSession(sid)
cleanupSession(store, sid) ==
    IF sid # NoId /\ sid \in store THEN store \ {sid} ELSE store

CleanupSession ==
    \E sid \in SuppliedIds :
        /\ opsLeft > 0
        /\ MayStart
        /\ opsLeft' = opsLeft - 1
        /\ sessions' = cleanupSession(sessions, sid)
        /\ lastInfo' = [status |-> "cleaned", sessionId |-> sid,
                        messageHistory |-> << >>]
        /\ UNCHANGED <<agents, nextId, initialized, calls, env, stub,
                       devLeft, modelLeft>>

(***************************************************************************)
(* The turns of the loop                                                   *)
(***************************************************************************)
\* what an answer costs: nothing when it is the default or when the
\* deterministic stub repeats itself
Cost(call, choice, default) ==
    IF choice = default \/ (twin /\ agents[call.agent] \in DOMAIN stub)
    THEN 0 ELSE 1

\* a deterministic stub answers a transcript it has seen as it did before
StubAllows(transcript, answer) ==
    twin /\ transcript \in DOMAIN stub => stub[transcript] = answer

StubRecord(transcript, answer) ==
    IF twin
    THEN [t \in DOMAIN stub \cup {transcript} |->
             IF t = transcript THEN answer ELSE stub[t]]
    ELSE stub

MayDeviate(call) == call.turns <= EarlyTurns \/ call.turns = MaxTurns

Spend(call, n) ==
    /\ n > 0 => devLeft >= n /\ MayDeviate(call)
    /\ devLeft' = devLeft - n

Push(c, message) == Append(agents[calls[c].agent], message)

\* executeToolCall on a name the registry lacks: the Observation at once
UnknownTool(call, hist) ==
    LET obs == NotFoundText(call.toolCall.toolName) IN
    [call |-> [call EXCEPT !.dispatches = @ + 1],
     obs |-> obs,
     hist |-> Append(hist, ObservationMessage(obs))]

\* executeToolCall on a name the registry inherits: the function found is
\* called and what it returns or raises becomes the Observation
InheritedTool(call, hist) ==
    LET obs == InheritedObservation(call.toolCall.toolName) IN
    [call |-> [call EXCEPT !.dispatches = @ + 1],
     obs |-> obs,
     hist |-> Append(hist, ObservationMessage(obs))]

\* executeToolCall when toolName is no key of the registry
NoOwnTool(call, hist) ==
    IF Inherited(call.toolCall.toolName) THEN InheritedTool(call, hist)
    ELSE UnknownTool(call, hist)

\* buffered mode: createChatCompletion returns `reply`; the rest of the
\* turn up to the next await
ModelAnswers(c, reply) ==
        LET call == calls[c]
            hist == Push(c, AssistantMessage(reply))
            tc == Parse(reply)
            acting == [call EXCEPT !.toolCall = tc]
        IN
        /\ call.pc = "awaitModel"
        /\ StubAllows(agents[call.agent], reply)
        /\ stub' = StubRecord(agents[call.agent], reply)
        /\ UNCHANGED <<sessions, nextId, initialized, lastInfo, env, opsLeft>>
        /\ IF tc.found
           THEN IF Registered(tc.toolName)
                THEN /\ agents' = SetHistory(call.agent, hist)
                     /\ Advance(c, [acting EXCEPT !.pc = "awaitTool",
                                                  !.dispatches = @ + 1,
                                                  !.toolRuns = @ + 1,
                                                  !.outcome = "none",
                                                  !.raised = << >>])
                ELSE LET u == NoOwnTool(acting, hist) IN
                     /\ agents' = SetHistory(call.agent, u.hist)
                     /\ Advance(c, BufferedLoop(u.call, u.hist))
           ELSE /\ agents' = SetHistory(call.agent, hist)
                /\ Advance(c, BufferedLoop(
                                 [call EXCEPT !.finalSet = TRUE,
                                              !.finalResponse = reply], hist))

\* a reply of the stub, within the budget of deviations
ModelRepliesWith(c, reply) ==
    /\ calls[c].pc = "awaitModel"
    /\ Spend(calls[c], Cost(calls[c], reply, DefaultReply))
    /\ ModelAnswers(c, reply)

ModelReplies == \E c \in Slots, reply \in Replies : ModelRepliesWith(c, reply)

ModelRepliesInherited == \E c \in Slots : ModelRepliesWith(c, ReplyInherited)

\* variant of ModelFails: the failed call takes its session out of the store
ModelFailsDropsSession ==
    \E c \in Slots :
        /\ calls[c].pc \in {"awaitModel", "awaitChunk"}
        /\ Spend(calls[c], 1)
        /\ calls' = [calls EXCEPT ![c] =
                        [@ EXCEPT !.pc = "rejected", !.error = ProviderError]]
        /\ sessions' = sessions \ {calls[c].agent}
        /\ UNCHANGED <<agents, nextId, initialized, lastInfo, env, stub,
                       opsLeft, modelLeft>>

\* the provider request fails: the loop does not catch it
ModelFails ==
    \E c \in Slots :
        /\ calls[c].pc \in {"awaitModel", "awaitChunk"}
        /\ Spend(calls[c], 1)
        /\ calls' = [calls EXCEPT ![c] =
                        [@ EXCEPT !.pc = "rejected", !.error = ProviderError]]
        /\ UNCHANGED <<sessions, agents, nextId, initialized, lastInfo,
                       env, stub, opsLeft, modelLeft>>

\* variant of Consume: the content is yielded but not collected
ConsumeNoCollect(call, delta) ==
    IF HasContent(delta)
    THEN [call EXCEPT !.events = Append(@, AssistantEvent(delta.content))]
    ELSE call

\* the for-await body on one delta
Consume(call, delta) ==
    IF HasContent(delta)
    THEN [call EXCEPT !.assistantResponse = @ \o delta.content,
                      !.events = Append(@, AssistantEvent(delta.content))]
    ELSE call

\* streaming mode: the provider starts to answer with `reply`
StreamOpensWith(c, reply) ==
        LET call == calls[c]
            deltas == Chunks(reply)
        IN
        /\ call.pc = "awaitChunk"
        /\ ~call.streamOpen
        /\ Spend(calls[c], Cost(calls[c], reply, DefaultReply))
        /\ StubAllows(agents[call.agent], reply)
        /\ stub' = StubRecord(agents[call.agent], reply)
        /\ calls' = [calls EXCEPT ![c] =
                        [Consume(call, Head(deltas)) EXCEPT
                            !.streamOpen = TRUE, !.pending = Tail(deltas)]]
        /\ UNCHANGED <<sessions, agents, nextId, initialized, lastInfo,
                       env, opsLeft, modelLeft>>

StreamOpens == \E c \in Slots, reply \in Replies : StreamOpensWith(c, reply)

StreamOpensInherited == \E c \in Slots : StreamOpensWith(c, ReplyInherited)

ChunkArrives ==
    \E c \in Slots :
        LET call == calls[c] IN
        /\ call.pc = "awaitChunk"
        /\ call.streamOpen
        /\ call.pending # << >>
        /\ calls' = [calls EXCEPT ![c] =
                        [Consume(call, Head(call.pending)) EXCEPT
                            !.pending = Tail(call.pending)]]
        /\ UNCHANGED <<sessions, agents, nextId, initialized, lastInfo,
                       env, stub, opsLeft, devLeft, modelLeft>>

\* the stream is exhausted: the rest of the turn up to the next await
StreamEnds ==
    \E c \in Slots :
        LET call == calls[c]
            text == call.assistantResponse
            hist == Push(c, AssistantMessage(text))
            tc == Parse(text)
            acting == [call EXCEPT !.toolCall = tc,
                                   !.events = Append(@, ToolCallEvent(tc))]
        IN
        /\ call.pc = "awaitChunk"
        /\ call.streamOpen
        /\ call.pending = << >>
        /\ UNCHANGED <<sessions, nextId, initialized, lastInfo, env, stub,
                       opsLeft, devLeft>>
        /\ agents' = SetHistory(call.agent, hist)
        /\ IF tc.found
           THEN Advance(c, [acting EXCEPT !.pc = "atToolCall"])
           ELSE Advance(c, [call EXCEPT
                               !.pc = "atComplete",
                               !.events = Append(@, CompleteEvent(text))])

\* the consumer resumes the generator after the toolCall event:
\* executeToolCall, up to the await of the tool or, for a name the registry
\* lacks, through the observation event to the head of the loop
ResumeAfterToolCall ==
    \E c \in Slots :
        LET call == calls[c] IN
        /\ call.pc = "atToolCall"
        /\ UNCHANGED <<sessions, nextId, initialized, lastInfo, env, stub,
                       opsLeft, devLeft>>
        /\ IF Registered(call.toolCall.toolName)
           THEN /\ UNCHANGED agents
                /\ Advance(c, [call EXCEPT !.pc = "awaitTool",
                                           !.dispatches = @ + 1,
                                           !.toolRuns = @ + 1,
                                           !.outcome = "none",
                                           !.raised = << >>])
           ELSE LET u == NoOwnTool(call, agents[call.agent]) IN
                /\ agents' = SetHistory(call.agent, u.hist)
                /\ Advance(c, StreamLoop(
                       [u.call EXCEPT !.events =
                           Append(@, ObservationEvent(u.obs))], u.hist))

\* the consumer resumes the generator after the complete event: break
ResumeAfterComplete ==
    \E c \in Slots :
        /\ calls[c].pc = "atComplete"
        /\ Advance(c, StreamAfterLoop(calls[c]))
        /\ UNCHANGED <<sessions, agents, nextId, initialized, lastInfo,
                       env, stub, opsLeft, devLeft>>

\* the awaited tool has settled (`how`: returned, or raised `message`) and
\* executeToolCall has made the Observation text `obs` of it
ToolSettles(c, how, message, obs) ==
    LET call == [calls[c] EXCEPT !.outcome = how, !.raised = message]
        hist == Push(c, ObservationMessage(obs))
    IN
    /\ StubAllows(agents[call.agent], obs)
    /\ stub' = StubRecord(agents[call.agent], obs)
    /\ agents' = SetHistory(call.agent, hist)
    /\ IF call.mode = "buffered"
       THEN Advance(c, BufferedLoop(call, hist))
       ELSE Advance(c, StreamLoop(
                [call EXCEPT !.events = Append(@, ObservationEvent(obs))],
                hist))
    /\ UNCHANGED <<sessions, nextId, initialized, lastInfo, env, opsLeft>>

ToolReturns ==
    \E c \in Slots, result \in ToolResults :
        /\ calls[c].pc = "awaitTool"
        /\ Spend(calls[c], Cost(calls[c], result, DefaultResult))
        /\ ToolSettles(c, "returned", << >>, Stringify(result))

\* the tool raises an Error: executeToolCall catches it
ToolThrows ==
    \E c \in Slots, message \in ToolFailures :
        /\ calls[c].pc = "awaitTool"
        /\ Spend(calls[c], Cost(calls[c], message, << >>))
        /\ ToolSettles(c, "raised", message,
                        ToolErrorText(calls[c].toolCall.toolName, message))

\* the tool returns a result that JSON.stringify refuses: the TypeError is
\* raised inside the try of executeToolCall and caught there
ToolReturnsCyclic ==
    \E c \in Slots :
        /\ calls[c].pc = "awaitTool"
        /\ Spend(calls[c], 1)
        /\ ToolSettles(c, "unserializable", StringifyError,
                        ToolErrorText(calls[c].toolCall.toolName,
                                      StringifyError))

\* the tool throws a value without a message: the catch of executeToolCall
\* raises a TypeError on error.message, so executeToolCall rejects. The
\* buffered loop does not catch it; the streaming loop catches it, appends
\* the Observation, yields an error event and goes on
ToolThrowsBare ==
    \E c \in Slots, thrown \in BareThrows :
        LET call == [calls[c] EXCEPT !.outcome = "raisedBare",
                                     !.raised = <<thrown>>]
            obs == ToolErrorText(call.toolCall.toolName, TypeErrorText(thrown))
        IN
        /\ calls[c].pc = "awaitTool"
        /\ Spend(calls[c], 1)
        /\ UNCHANGED <<sessions, nextId, initialized, lastInfo, env, stub,
                       opsLeft>>
        /\ IF call.mode = "buffered"
           THEN /\ UNCHANGED agents
                /\ Advance(c, [call EXCEPT !.pc = "rejected",
                                           !.error = TypeErrorText(thrown)])
           ELSE /\ agents' = SetHistory(call.agent,
                                        Push(c, ObservationMessage(obs)))
                /\ Advance(c, StreamLoop(
                       [call EXCEPT !.events = Append(@, ErrorEvent(obs))],
                       Push(c, ObservationMessage(obs))))

Next ==
    \/ ProcessInstruction
    \/ ProcessInstructionStream
    \/ CreateSession
    \/ GetSessionInfo
    \/ CleanupSession
    \/ ModelReplies
    \/ ModelFails
    \/ StreamOpens
    \/ ChunkArrives
    \/ StreamEnds
    \/ ResumeAfterToolCall
    \/ ResumeAfterComplete
    \/ ToolReturns
    \/ ToolThrows

Spec == Init /\ [][Next]_vars

\* the client of a stream in flight closes its connection: the handler the
\* controller registers for the close of the request writes a log line
ClientCloses ==
    \E c \in Slots :
        /\ calls[c].mode = "stream"
        /\ Active(calls[c])
        /\ ~calls[c].closed
        /\ Spend(calls[c], 1)
        /\ calls' = [calls EXCEPT ![c] = [@ EXCEPT !.closed = TRUE]]
        /\ UNCHANGED <<sessions, agents, nextId, initialized, lastInfo,
                       env, stub, opsLeft, modelLeft>>

\* variant of EndsResponse: only an error event ends the response
EndsResponseOnErrorOnly(chunk) == chunk.type = "error"

\* if (chunk.type === 'complete' || chunk.type === 'error') of the handler
EndsResponse(chunk) == chunk.type = "complete" \/ chunk.type = "error"

\* the body of the for-await of the HTTP handler on the next event of the
\* stream: res.write, then res.end and break on a final event
HandlerWrites ==
    \E c \in Slots :
        LET call == calls[c] IN
        /\ call.mode = "stream"
        /\ ~call.ended
        /\ call.read < Len(call.events)
        /\ LET chunk == call.events[call.read + 1] IN
           calls' = [calls EXCEPT ![c] =
                        [call EXCEPT !.written = Append(@, chunk),
                                     !.read = @ + 1,
                                     !.ended = EndsResponse(chunk)]]
        /\ UNCHANGED <<sessions, agents, nextId, initialized, lastInfo,
                       env, stub, opsLeft, devLeft, modelLeft>>

\* the catch of the HTTP handler: the stream has thrown after the events
\* the handler has read; one error event is written and the response ends
HandlerCatches ==
    \E c \in Slots :
        LET call == calls[c] IN
        /\ call.mode = "stream"
        /\ call.pc = "rejected"
        /\ call.error # RequiredError
        /\ ~call.ended
        /\ call.read = Len(call.events)
        /\ calls' = [calls EXCEPT ![c] =
                        [call EXCEPT !.written =
                                         Append(@, ErrorEvent(call.error)),
                                     !.ended = TRUE]]
        /\ UNCHANGED <<sessions, agents, nextId, initialized, lastInfo,
                       env, stub, opsLeft, devLeft, modelLeft>>

\* the handler refuses a request without instruction with status 400 and
\* a JSON body: no event is written
HandlerRefuses ==
    \E c \in Slots :
        LET call == calls[c] IN
        /\ call.mode = "stream"
        /\ call.pc = "rejected"
        /\ call.error = RequiredError
        /\ ~call.ended
        /\ calls' = [calls EXCEPT ![c] = [call EXCEPT !.ended = TRUE]]
        /\ UNCHANGED <<sessions, agents, nextId, initialized, lastInfo,
                       env, stub, opsLeft, devLeft, modelLeft>>

\* parseToolCall on the given text
ParseGiven ==
    /\ given # NoInput
    /\ ~parsed.done
    /\ parsed' = [done |-> TRUE,
                  raised |-> parseToolCallRaises(given.text),
                  toolCall |-> IF parseToolCallRaises(given.text)
                               THEN NoToolCall
                               ELSE parseToolCall(given.text)]
    /\ UNCHANGED <<sessions, agents, nextId, initialized, calls, lastInfo,
                   overlap, twin, stub, opsLeft, devLeft, modelLeft, given,
                   client>>

NextParse == ParseGiven

\* createChatCompletion in mock mode on the given message list
CreateMockCompletion ==
    /\ ~completion.done
    /\ LET r == generateMockCompletion(messages) IN
       completion' = [done |-> TRUE, raised |-> r.raised,
                      completion |-> r.completion]
    /\ UNCHANGED <<sessions, agents, nextId, initialized, calls, lastInfo,
                   overlap, twin, stub, opsLeft, devLeft, modelLeft, given,
                   parsed, messages, buffer, mimeType, browser>>

NextMock == CreateMockCompletion

SpecMock == InitMock /\ [][NextMock]_vars

\* detectMimeType on the given buffer
DetectMimeType ==
    /\ mimeType = NotDetected
    /\ mimeType' = detectMimeType(buffer)
    /\ UNCHANGED <<sessions, agents, nextId, initialized, calls, lastInfo,
                   overlap, twin, stub, opsLeft, devLeft, modelLeft, given,
                   parsed, messages, completion, buffer, browser>>

NextMime == DetectMimeType

SpecMime == InitMime /\ [][NextMime]_vars

SpecParse == InitParse /\ [][NextParse]_vars

\* clients that may close the connection of a stream
NextClose ==
    \/ Next
    \/ ClientCloses

SpecClose == Init /\ [][NextClose]_vars

\* a model that may also name a property the registry inherits
NextProto ==
    \/ Next
    \/ ModelRepliesInherited
    \/ StreamOpensInherited

SpecProto == Init /\ [][NextProto]_vars

\* tools that may also throw any value and return any result
NextRaise ==
    \/ Next
    \/ ToolReturnsCyclic
    \/ ToolThrowsBare

SpecRaise == Init /\ [][NextRaise]_vars

SpecBrowser == InitBrowser /\ [][NextBrowser]_vars

\* the instructions sent to a service whose provider is the mock
MockInstructions == {Str(text) : text \in Contents \ {<< >>}}

\* one instruction for a service in mock mode
InitMockLoop ==
    /\ InitCommon
    /\ given = NoInput
    /\ messages = NoMessages
    /\ buffer = NoBuffer
    /\ overlap = FALSE
    /\ twin = FALSE
    /\ opsLeft = 1
    /\ modelLeft = MaxTurns

ProcessInstructionMock ==
    \E c \in Slots, sid \in SuppliedIds, instr \in MockInstructions :
        StartCall(c, "buffered", sid, instr)

ProcessInstructionStreamMock ==
    \E c \in Slots, sid \in SuppliedIds, instr \in MockInstructions :
        StartCall(c, "stream", sid, instr)

\* createChatCompletion in mock mode: the content of the only choice of
\* generateMockCompletion for the messages of the request
MockModelReplies ==
    \E c \in Slots :
        LET r == generateMockCompletion(calls[c].sent) IN
        /\ calls[c].pc = "awaitModel"
        /\ ~r.raised
        /\ ModelAnswers(c, r.completion.choices[1].message.content)
        /\ UNCHANGED devLeft

\* createChatCompletionStream in mock mode: generateMockCompletionStream
\* yields its first chunk
MockStreamOpens ==
    \E c \in Slots :
        LET call == calls[c]
            deltas == MockChunks(MockContent(UserMessage(call.sent).text))
        IN
        /\ call.pc = "awaitChunk"
        /\ ~call.streamOpen
        /\ calls' = [calls EXCEPT ![c] =
                        [Consume(call, Head(deltas)) EXCEPT
                            !.streamOpen = TRUE, !.pending = Tail(deltas)]]
        /\ UNCHANGED <<sessions, agents, nextId, initialized, lastInfo,
                       env, stub, opsLeft, devLeft, modelLeft>>

NextMockLoop ==
    \/ ProcessInstructionMock
    \/ ProcessInstructionStreamMock
    \/ MockModelReplies
    \/ MockStreamOpens
    \/ ChunkArrives
    \/ StreamEnds
    \/ ResumeAfterToolCall
    \/ ToolReturns
    \/ ToolThrows

SpecMockLoop == InitMockLoop /\ [][NextMockLoop]_vars

\* the generator of a stream runs only while the for-await of the handler
\* awaits its next event: not before the handler has read the events it
\* has yielded, and not after the break
Pulled ==
    \A c \in Slots :
        (/\ calls[c].mode = "stream"
         /\ calls[c].ended \/ calls[c].read < Len(calls[c].events))
        => \/ calls'[c] = calls[c]
           \/ calls[c].ended /\ calls'[c].op # calls[c].op

\* streams that are served by the HTTP handler, with tools that may throw
\* any value
NextHttp ==
    \/ NextRaise /\ Pulled
    \/ HandlerWrites
    \/ HandlerCatches
    \/ HandlerRefuses

SpecHttp == Init /\ [][NextHttp]_vars

\* every awaited provider request and tool call settles, every delta of an
\* open stream arrives, and the consumer of a stream keeps reading it
Settles ==
    \/ ModelReplies
    \/ ModelFails
    \/ StreamOpens
    \/ ChunkArrives
    \/ StreamEnds
    \/ ResumeAfterToolCall
    \/ ResumeAfterComplete
    \/ ToolReturns
    \/ ToolThrows

SpecLive == InitLive /\ [][Next]_vars /\ WF_vars(Settles)

SpecStore == InitStore /\ [][Next]_vars

SpecOverlap == InitOverlap /\ [][Next]_vars

SpecIsolation == InitIsolation /\ [][Next]_vars

SpecTwin == InitTwin /\ [][Next]_vars


(***************************************************************************)
(* Properties                                                              *)
(***************************************************************************)
Last(seq) == seq[Len(seq)]

Terminal(event) == event.type \in {"complete", "error"}

CountOf(events, type) == Cardinality({i \in 1..Len(events) : events[i].type = type})

HistoryOf(call) == agents[call.agent]

\* every assistant message of the call's transcript holds a parsable Action
AllRepliesAct(call) ==
    \A i \in 1..Len(HistoryOf(call)) :
        HistoryOf(call)[i].role = "assistant"
            => Parse(HistoryOf(call)[i].content).found

\* the budget-exhausted outcome of either mode
BudgetExhausted(call) ==
    IF call.mode = "buffered"
    THEN \E i \in 1..Len(HistoryOf(call)) :
            /\ HistoryOf(call)[i].role = "assistant"
            /\ call.result = HistoryOf(call)[i].content
                   \o <<"\n\n[Note: Maximum conversation turns reached]">>
    ELSE /\ call.events # << >>
         /\ Last(call.events) =
                [type |-> "error", content |-> <<"Maximum conversation turns reached.">>]
         /\ CountOf(call.events, "complete") = 0

\* C1: in either mode a call never makes more than 15 model-provider
\* requests (its turn count never exceeds 15), and a call that has ended
\* after model replies that all held a parsable Action has made exactly 15
\* requests and 15 tool dispatches and ended with the budget-exhausted
\* outcome.
C1_TurnBudget ==
    \A c \in Slots :
        /\ calls[c].turns <= MaxTurns
        /\ calls[c].modelCalls <= MaxTurns
        /\ (calls[c].pc = "done" /\ AllRepliesAct(calls[c]))
              => /\ calls[c].modelCalls = MaxTurns
                 /\ calls[c].dispatches = MaxTurns
                 /\ BudgetExhausted(calls[c])

C1_Witness ==
    \E c \in Slots :
        /\ calls[c].pc = "done"
        /\ calls[c].mode = "stream"
        /\ AllRepliesAct(calls[c])
        /\ calls[c].dispatches = MaxTurns

\* C2: the events of one streamed instruction hold at most one terminal
\* event (complete or error) and nothing after it, and a stream that holds
\* a complete event holds exactly one and no error event.
C2_SingleTerminalEvent ==
    \A c \in Slots :
        calls[c].mode = "stream" =>
            /\ \A i \in 1..Len(calls[c].events) :
                  Terminal(calls[c].events[i]) => i = Len(calls[c].events)
            /\ CountOf(calls[c].events, "complete") > 0 =>
                  /\ CountOf(calls[c].events, "complete") = 1
                  /\ CountOf(calls[c].events, "error") = 0

\* C3: after an instruction on a session that already existed, the history
\* of the session is strictly longer than before the instruction and starts
\* with the messages it held before, in the same order.
C3_ReuseAppends ==
    \A c \in Slots :
        (calls[c].pc = "done" /\ ~calls[c].created) =>
            /\ Len(HistoryOf(calls[c])) > Len(calls[c].before)
            /\ SubSeq(HistoryOf(calls[c]), 1, Len(calls[c].before))
                   = calls[c].before

\* C4: with deterministic stubs, the text a buffered call returns equals the
\* content of the complete event of a streamed call for the same
\* instruction.
C4_SameFinalAnswer ==
    \A b \in Slots, s \in Slots :
        (/\ calls[b].mode = "buffered" /\ calls[b].pc = "done"
         /\ calls[s].mode = "stream" /\ calls[s].pc \in {"atComplete", "done"}
         /\ calls[b].instruction = calls[s].instruction)
        => \A i \in 1..Len(calls[s].events) :
              calls[s].events[i].type = "complete"
                  => calls[s].events[i].content = calls[b].result

\* C5: when the latest model reply of a call holds no Action, the call has
\* ended with that reply as its answer, without a further request or tool
\* call: the buffered call has returned exactly that text, the streamed
\* call has emitted complete with exactly that text.
C5_NoActionIsFinal ==
    \A c \in Slots :
        (/\ calls[c].pc \in {"awaitModel", "awaitChunk", "atToolCall",
                            "awaitTool", "atComplete", "done"}
         /\ Last(HistoryOf(calls[c])).role = "assistant"
         /\ ~Parse(Last(HistoryOf(calls[c])).content).found)
        => IF calls[c].mode = "buffered"
           THEN /\ calls[c].pc = "done"
                /\ calls[c].result = Last(HistoryOf(calls[c])).content
           ELSE /\ calls[c].pc \in {"atComplete", "done"}
                /\ \E i \in 1..Len(calls[c].events) :
                      /\ calls[c].events[i].type = "complete"
                      /\ calls[c].events[i].content
                             = Last(HistoryOf(calls[c])).content

\* C6: two calls are never in flight on the same session at the same time.
C6_NoConcurrentEntry ==
    \A c \in Slots, d \in Slots :
        (c # d /\ Active(calls[c]) /\ Active(calls[d]))
            => calls[c].agent # calls[d].agent

\* the step in which the tool awaited by the call of slot c raises
ToolRaises(c) ==
    /\ calls[c].pc = "awaitTool"
    /\ calls'[c].outcome = "raised"

\* the call of slot c goes on after a turn: to the next request, or to its
\* end when the turn was the last of the budget
GoesOn(c) ==
    /\ calls'[c].error = << >>
    /\ IF calls[c].turns < MaxTurns
       THEN /\ calls'[c].pc \in {"awaitModel", "awaitChunk"}
            /\ calls'[c].turns = calls[c].turns + 1
            /\ calls'[c].modelCalls = calls[c].modelCalls + 1
       ELSE calls'[c].pc = "done"

RECURSIVE Occurrence(_, _, _)
Occurrence(text, piece, from) ==
    IF from + Len(piece) - 1 > Len(text) THEN 0
    ELSE IF SubSeq(text, from, from + Len(piece) - 1) = piece THEN from
    ELSE Occurrence(text, piece, from + 1)

\* the pieces occur in `text` one after the other, from index `from` on
RECURSIVE OccurInOrder(_, _, _)
OccurInOrder(text, pieces, from) ==
    IF pieces = << >> THEN TRUE
    ELSE LET at == Occurrence(text, Head(pieces), from) IN
         /\ at # 0
         /\ OccurInOrder(text, Tail(pieces), at + Len(Head(pieces)))

\* the step in which the call of slot c dispatches an Action whose tool
\* name is no key of the registry
UnknownDispatch(c) ==
    /\ calls[c].pc \in {"awaitModel", "atToolCall"}
    /\ calls'[c].dispatches = calls[c].dispatches + 1
    /\ calls'[c].toolCall.toolName \notin
          { Name2("browser", n) : n \in {"open", "search", "click", "type",
                "screenshot", "getHtml", "extractData", "observe"} }
          \cup { Name2("parser", n) : n \in {"parseScreenshot",
                "extractComponentData"} }
          \cup { Name2("document", n) : n \in {"analyze", "analyzeMultiple",
                "compare"} }

\* C8: when a parsed Action names a tool that is no key of the registry, no
\* registered tool is invoked, the Observation appended for the turn holds
\* the requested name and then every registered name in insertion order,
\* and the call goes on to the next model request.
C8_UnknownToolObserved ==
    [][\A c \in Slots :
          UnknownDispatch(c) =>
              /\ calls'[c].toolRuns = calls[c].toolRuns
              /\ calls'[c].pc # "awaitTool"
              /\ Last(agents'[calls[c].agent]).role = "user"
              /\ Head(Last(agents'[calls[c].agent]).content) = "Observation: "
              /\ OccurInOrder(Last(agents'[calls[c].agent]).content,
                              <<calls'[c].toolCall.toolName>> \o ToolNames, 1)
              /\ GoesOn(c)]_vars

C8_Witness ==
    \E c \in Slots :
        /\ calls[c].dispatches > calls[c].toolRuns
        /\ calls[c].pc \in {"awaitModel", "awaitChunk"}

\* the step in which a provider request of the call of slot c fails
ProviderFails(c) ==
    /\ calls[c].pc \in {"awaitModel", "awaitChunk"}
    /\ calls'[c].pc = "rejected"

\* a call that has failed does nothing more: its slot keeps its record
\* until a later operation takes the slot
StaysFailed(c) ==
    calls[c].pc = "rejected" =>
        \/ calls'[c] = calls[c]
        \/ calls'[c].op > calls[c].op

\* C9: a failed provider request is not recovered: the call fails with the
\* provider's error, a stream has emitted no complete event, the call makes
\* no further request or tool call, and the session stays in the store with
\* its history: getSessionInfo succeeds and an instruction with the same id
\* is served by the same agent.
C9_ProviderFailurePropagates ==
    [][\A c \in Slots :
          /\ StaysFailed(c)
          /\ ProviderFails(c) =>
                /\ calls'[c].error = ProviderError
                /\ calls'[c].modelCalls = calls[c].modelCalls
                /\ calls'[c].dispatches = calls[c].dispatches
                /\ calls'[c].events = calls[c].events
                /\ CountOf(calls'[c].events, "complete") = 0
                /\ sessions' = sessions
                /\ agents' = agents
                /\ (getSessionInfo(calls[c].agent))'
                      = [status |-> "ok", sessionId |-> calls[c].agent,
                         messageHistory |-> agents[calls[c].agent]]
                /\ (Resolve(calls[c].agent))'
                      = [agent |-> calls[c].agent, created |-> FALSE]]_vars

C9_Witness ==
    \E c \in Slots :
        /\ calls[c].pc = "rejected"
        /\ calls[c].error = ProviderError
        /\ calls[c].mode = "stream"
        /\ calls[c].events # << >>
        /\ calls[c].agent \in sessions

\* the step that starts the call of slot c
Starts(c) ==
    /\ opsLeft' = opsLeft - 1
    /\ calls'[c].op = nextOp

\* C10: a call whose instruction is empty or absent fails with the
\* invalid-input error before the loop starts: the store and every history
\* are unchanged, no request is made and no event is emitted.
C10_InvalidInputRejected ==
    [][\A c \in Slots :
          (Starts(c) /\ Falsy(calls'[c].instruction)) =>
              /\ calls'[c].pc = "rejected"
              /\ calls'[c].error = <<"Instruction is required">>
              /\ calls'[c].modelCalls = 0
              /\ calls'[c].events = << >>
              /\ sessions' = sessions
              /\ agents' = agents
              /\ nextId' = nextId
              /\ modelLeft' = modelLeft]_vars

C10_Witness ==
    \E c \in Slots :
        /\ calls[c].pc = "rejected"
        /\ Falsy(calls[c].instruction)
        /\ calls[c].mode = "stream"
        /\ sessions # {}

\* C11: session resolution is the same in both modes. When the supplied id
\* is a key of the store, the call runs on that session, no session is
\* added and a stream emits no session event; otherwise exactly one new
\* session with a fresh id is added and the id is reported, as the
\* sessionId of the buffered result or as the first event of the stream.
\* A stream holds a session event exactly when its call created a session,
\* never more than one and only as its first event.
C11_SessionResolution ==
    [][\A c \in Slots :
          /\ (Starts(c) /\ ~Falsy(calls'[c].instruction)) =>
                IF calls'[c].supplied \in sessions
                THEN /\ calls'[c].agent = calls'[c].supplied
                     /\ ~calls'[c].created
                     /\ sessions' = sessions
                     /\ CountOf(calls'[c].events, "session") = 0
                ELSE /\ calls'[c].created
                     /\ calls'[c].agent \notin sessions
                     /\ calls'[c].agent \notin DOMAIN agents
                     /\ sessions' = sessions \cup {calls'[c].agent}
                     /\ Cardinality(sessions') = Cardinality(sessions) + 1
                     /\ calls'[c].mode = "stream" =>
                           Head(calls'[c].events) =
                               [type |-> "session",
                                sessionId |-> calls'[c].agent]
          /\ calls'[c].mode = "stream" =>
                /\ CountOf(calls'[c].events, "session")
                       = (IF calls'[c].created THEN 1 ELSE 0)
                /\ \A i \in 2..Len(calls'[c].events) :
                       calls'[c].events[i].type # "session"
          /\ (calls'[c].mode = "buffered" /\ calls'[c].pc = "done") =>
                /\ Returned(calls'[c]).sessionId \in sessions \cup DOMAIN agents
                /\ Returned(calls'[c]).sessionId = calls'[c].agent
                /\ ~calls'[c].created =>
                       Returned(calls'[c]).sessionId = calls'[c].supplied]_vars

C11_Witness ==
    \E c \in Slots :
        /\ calls[c].mode = "stream"
        /\ calls[c].supplied \in sessions
        /\ calls[c].agent = calls[c].supplied
        /\ ~calls[c].created
        /\ calls[c].events # << >>
        /\ Cardinality(sessions) = 1

\* C15: getSessionInfo changes nothing. For an id that is a key of the
\* store it returns the id and the current history of the session; for any
\* other id (never issued, or issued and cleaned up) it fails as not found.
C15_SessionInfo ==
    [][(opsLeft' = opsLeft - 1 /\ lastInfo'.status \in {"ok", "notFound"}) =>
          /\ sessions' = sessions
          /\ agents' = agents
          /\ calls' = calls
          /\ nextId' = nextId
          /\ IF lastInfo'.sessionId \in sessions
             THEN lastInfo' = [status |-> "ok",
                               sessionId |-> lastInfo'.sessionId,
                               messageHistory |-> agents[lastInfo'.sessionId]]
             ELSE lastInfo'.status = "notFound"]_vars

C15_Witness ==
    /\ lastInfo.status = "notFound"
    /\ lastInfo.sessionId \in DOMAIN agents
    /\ lastInfo.sessionId \notin sessions

\* C16: cleanupSession removes exactly the entry of its id and nothing
\* else, and leaves the store as it is when the id is no key; a second
\* cleanup of the same id changes nothing more; afterwards getSessionInfo
\* of the id fails and an instruction that carries the id is served by a
\* new session.
C16_CleanupIdempotent ==
    [][\A sid \in SuppliedIds :
          (/\ opsLeft' = opsLeft - 1
           /\ lastInfo'.status = "cleaned"
           /\ lastInfo'.sessionId = sid) =>
              /\ sessions' = sessions \ {sid}
              /\ sid \notin sessions => sessions' = sessions
              /\ agents' = agents
              /\ calls' = calls
              /\ nextId' = nextId
              /\ cleanupSession(sessions', sid) = sessions'
              /\ (getSessionInfo(sid))'.status = "notFound"
              /\ (Resolve(sid))'.created]_vars

C16_Witness ==
    /\ lastInfo.status = "cleaned"
    /\ lastInfo.sessionId \in DOMAIN agents
    /\ lastInfo.sessionId \notin sessions
    /\ sessions # {}

\* the assistant messages of a history, in order
AssistantTexts(hist) ==
    SelectSeq(hist, LAMBDA m : m.role = "assistant")

RECURSIVE AssistantRun(_, _)
AssistantRun(events, i) ==
    IF i < 1 \/ events[i].type # "assistant" THEN << >>
    ELSE AssistantRun(events, i - 1) \o events[i].content

\* the number of observation events among the first j events
ObservationsUpTo(events, j) ==
    Cardinality({k \in 1..j : events[k].type = "observation"})

C14_OnlyInputAndProviderFail ==
    \A c \in Slots :
        calls[c].pc = "rejected" =>
            calls[c].error \in
                {<<"Instruction is required">>,
                 <<"Instruction must be a non-empty string">>,
                 ProviderError}

\* the events of a call are bounded by its turns: the session event, then
\* per turn at most one event per delta, one toolCall and one observation
\* or one complete event, then one event after the loop
EventsBounded(call) ==
    /\ call.turns <= MaxTurns
    /\ Len(call.events) <= 2 + call.turns * (Len(Chunks(DefaultReply)) + 2)

\* C17: when every provider request and every tool call settles, every
\* call in flight ends: the buffered call returns or is rejected, the
\* stream reaches its end; and the number of events of a call is bounded
\* by its turns, which never exceed 15.
C17_Terminates ==
    /\ \A c \in Slots : Active(calls[c]) ~> ~Active(calls[c])
    /\ [](\A c \in Slots : EventsBounded(calls[c]))

C17_Witness ==
    \E c \in Slots :
        /\ calls[c].pc = "done"
        /\ calls[c].mode = "stream"
        /\ calls[c].created
        /\ calls[c].turns = MaxTurns
        /\ CountOf(calls[c].events, "assistant") = MaxTurns + MaxTurns

\* C18: once the client of a stream has closed its connection, the call
\* behind the stream emits no further event and starts no further
\* model-provider request.
C18_StopsOnClose ==
    [][\A c \in Slots :
          (calls[c].closed /\ calls'[c].closed) =>
              /\ calls'[c].events = calls[c].events
              /\ calls'[c].modelCalls = calls[c].modelCalls]_vars

\* the parameters of a list of <<key, value>> as a mapping
MappingOf(list) ==
    [k \in {list[n][1] : n \in 1..Len(list)} |->
        (CHOOSE n \in 1..Len(list) : list[n][1] = k)]

ValuesOf(list) ==
    [k \in DOMAIN MappingOf(list) |-> list[MappingOf(list)[k]][2]]

\* C19: for a well-formed action text, parseToolCall returns the tool name
\* as written and exactly the parameters as written, each value a string
\* with its escaped quotes unescaped, whatever the values hold (commas,
\* parentheses, spaces, quotes).
C19_WellFormedRecovered ==
    (parsed.done /\ given.kind = "wellFormed") =>
        /\ parsed.toolCall.found
        /\ parsed.toolCall.toolName = given.name
        /\ parsed.toolCall.params = ValuesOf(given.list)

\* the first occurrence of Action: in a text with what follows it up to the
\* next occurrence, << >> when there is none
RECURSIVE UpToAction(_, _)
UpToAction(text, i) ==
    IF i > Len(text) \/ text[i] = ActionKw THEN << >>
    ELSE <<text[i]>> \o UpToAction(text, i + 1)

RECURSIVE FirstOccurrence(_, _)
FirstOccurrence(text, i) ==
    IF i > Len(text) THEN << >>
    ELSE IF text[i] = ActionKw THEN <<ActionKw>> \o UpToAction(text, i + 1)
    ELSE FirstOccurrence(text, i + 1)

\* C20: the result of parseToolCall is determined by the first occurrence
\* of Action: alone: the ToolCall of that occurrence when it has the form
\* name(args), nothing otherwise, whatever later occurrences hold.
C20_FirstActionOnly ==
    parsed.done =>
        parsed.toolCall = parseToolCall(FirstOccurrence(given.text, 1))

\* key="value" as the text holds it for a parameter the parser returned
WrittenPair(key, value) == <<key, "=", Quote>> \o Written(value) \o <<Quote>>

\* C21: parseToolCall never raises: it returns nothing or a ToolCall whose
\* name is a word or word.word of the text and whose params holds only
\* pairs the text holds as key="value"; for an action with a malformed
\* parameter list it still returns the ToolCall of that action.
C21_NeverRaises ==
    parsed.done =>
        /\ ~parsed.raised
        /\ \/ parsed.toolCall = NoToolCall
           \/ /\ parsed.toolCall.found
              /\ Occurrence(given.text,
                            <<ActionKw>>, 1) # 0
              /\ Occurrence(given.text,
                            parsed.toolCall.toolName \o <<"(">>, 1) # 0
              /\ \A k \in DOMAIN parsed.toolCall.params :
                    Occurrence(given.text,
                               WrittenPair(k, parsed.toolCall.params[k]), 1) # 0
        /\ given.kind = "malformed" =>
              /\ parsed.toolCall.found
              /\ parsed.toolCall.toolName = given.name
        /\ given.kind = "plain" => parsed.toolCall = NoToolCall

\* an unterminated quote in the second of two pairs: the first is returned
C21_Witness ==
    /\ parsed.done
    /\ given.kind = "malformed"
    /\ Len(given.list) = 2
    /\ parsed.toolCall.found
    /\ DOMAIN parsed.toolCall.params = {given.list[1][1]}
    /\ parsed.toolCall.params[given.list[1][1]] = given.list[1][2]

\* the Available Tools list of the system prompt has an entry for the name
Listed(toolName) ==
    Occurrence(getSystemPrompt, <<"Tool: ">> \o toolName, 1) # 0

\* the step in which the call of slot c dispatches a ToolCall
Dispatch(c) == calls'[c].dispatches = calls[c].dispatches + 1

\* C22: a tool name is in the Available Tools list of the session's system
\* prompt if and only if dispatching a ToolCall with that name invokes a
\* registered tool; dispatching any other name produces the unknown-tool
\* Observation.
C22_PromptListsCallable ==
    [][\A c \in Slots :
          Dispatch(c) =>
              LET name == calls'[c].toolCall.toolName
                  hist == agents'[calls'[c].agent]
              IN
              /\ hist[1] = [role |-> "system", content |-> getSystemPrompt]
              /\ Listed(name) <=> calls'[c].toolRuns = calls[c].toolRuns + 1
              /\ ~Listed(name) =>
                    Last(hist) = ObservationMessage(NotFoundText(name))]_vars

\* C23: in mock mode createChatCompletion returns, for any message list and
\* without failing, a completion with exactly one choice whose message has
\* role assistant and whose content holds a Thought: part and an Action:
\* part.
C23_MockCompletion ==
    completion.done =>
        /\ ~completion.raised
        /\ Len(completion.completion.choices) = 1
        /\ completion.completion.choices[1].message.role = "assistant"
        /\ Occurrence(completion.completion.choices[1].message.content,
                      <<"Thought:">>, 1) # 0
        /\ Occurrence(completion.completion.choices[1].message.content,
                      <<ActionKw>>, 1) # 0

\* a completion for a message list that holds no user message
C23_Witness ==
    /\ completion.done
    /\ messages # << >>
    /\ \A i \in 1..Len(messages) : messages[i].role # "user"
    /\ completion.completion.choices[1].message.content = MockOther

\* the signatures as the claim gives them
StartsWith(buf, signature) ==
    /\ Len(buf) >= Len(signature)
    /\ SubSeq(buf, 1, Len(signature)) = signature

\* C24: detectMimeType gives image/jpeg when the buffer starts with FF D8,
\* image/png when it starts with 89 50 4E 47, application/pdf when it
\* starts with 25 50 44 46, and application/octet-stream for every other
\* buffer, those shorter than a signature included.
C24_MimeByLeadingBytes ==
    mimeType # NotDetected =>
        mimeType =
            IF StartsWith(buffer, <<255, 216>>) THEN "image/jpeg"
            ELSE IF StartsWith(buffer, <<137, 80, 78, 71>>) THEN "image/png"
            ELSE IF StartsWith(buffer, <<37, 80, 68, 70>>)
                 THEN "application/pdf"
            ELSE "application/octet-stream"

\* a buffer that is a PNG signature cut short
C24_Witness ==
    /\ buffer = <<137, 80, 78>>
    /\ mimeType = "application/octet-stream"

\* the loop of the call has completed a turn and has not yet changed the
\* Conversation State in the next one: it has returned or ended, it is
\* suspended at the complete event, or it awaits the model in a later turn
TurnCompleted(call) ==
    \/ call.pc \in {"done", "atComplete"}
    \/ call.pc \in {"awaitModel", "awaitChunk"} /\ call.turns >= 2

\* an assistant message without an extractable ToolCall, or an Observation
Settled(message) ==
    \/ message.role = "assistant" /\ ~Parse(message.content).found
    \/ /\ message.role = "user"
       /\ message.content # << >>
       /\ Head(message.content) = "Observation: "

\* C25: whenever a turn of a session's loop has completed, in either mode,
\* the Conversation State ends in an assistant message without an
\* extractable ToolCall or in a user message that begins with Observation: .
C25_EndsSettled ==
    \A c \in Slots :
        TurnCompleted(calls[c]) =>
            /\ HistoryOf(calls[c]) # << >>
            /\ Settled(Last(HistoryOf(calls[c])))

\* a stream suspended at the complete event of its second turn, after the
\* Observation of the first
C25_Witness ==
    \E c \in Slots :
        /\ calls[c].pc = "atComplete"
        /\ calls[c].turns = 2
        /\ Len(HistoryOf(calls[c])) = 5
        /\ Head(HistoryOf(calls[c])[4].content) = "Observation: "
        /\ Last(HistoryOf(calls[c])).role = "assistant"

\* C26: the Conversation State of every session in the store holds exactly
\* one system message, and holds it at index 0 (the first message), from the
\* creation of the session onward.
C26_OneSystemMessage ==
    \A sid \in sessions :
        /\ CountOf([i \in 1..Len(agents[sid]) |->
                       [type |-> agents[sid][i].role]], "system") = 1
        /\ agents[sid][1].role = "system"

\* the sessions a step is taken for: those of the calls that move, the one
\* a cleanup names, the one that is created
StepSessions ==
    {calls'[c].agent : c \in {d \in Slots : calls'[d] # calls[d]}}
    \cup (IF lastInfo'.status = "cleaned" THEN {lastInfo'.sessionId} ELSE {})
    \cup (DOMAIN agents' \ DOMAIN agents)

\* C27: a step taken for one session leaves the Conversation State and the
\* store entry of every other session as they were, under any interleaving
\* of instructions, creations and cleanups.
C27_SessionsIsolated ==
    [][\A sid \in DOMAIN agents :
          sid \notin StepSessions =>
              /\ sid \in DOMAIN agents'
              /\ agents'[sid] = agents[sid]
              /\ sid \in sessions' <=> sid \in sessions]_vars

\* two instructions in flight on two sessions, each with a reply or an
\* Observation in its Conversation State
C27_Witness ==
    /\ \E c, d \in Slots :
          /\ c # d
          /\ Active(calls[c]) /\ Active(calls[d])
          /\ calls[c].agent # calls[d].agent
          /\ Len(agents[calls[c].agent]) > 2
          /\ Len(agents[calls[d].agent]) > 2

\* C28: the turn counter belongs to the call: a call starts its count at
\* zero also on a session that earlier calls have used, every turn of the
\* call makes one model request, and the call makes at most 15 of them.
C28_TurnsPerCall ==
    /\ [](\A c \in Slots :
            /\ calls[c].turns <= MaxTurns
            /\ calls[c].modelCalls = calls[c].turns)
    /\ [][\A c \in Slots :
            (Starts(c) /\ Active(calls'[c])) =>
                /\ calls'[c].turns = 1
                /\ calls'[c].modelCalls = 1]_vars

\* a call that makes its 15th request on a session whose earlier call had
\* made 15 requests
C28_Witness ==
    \E c \in Slots :
        /\ ~calls[c].created
        /\ CountOf([i \in 1..Len(calls[c].before) |->
                       [type |-> calls[c].before[i].role]], "assistant")
               = MaxTurns
        /\ calls[c].modelCalls = MaxTurns

IsPrefix(short, long) ==
    /\ Len(short) <= Len(long)
    /\ SubSeq(long, 1, Len(short)) = short

\* the call of slot c makes a model request in this step
Requests1(c) == calls'[c].modelCalls = calls[c].modelCalls + 1

\* C29: while an instruction is processed with no overlapping call, the
\* Conversation State only grows at its end, by the messages a step pushes
\* one after the other, and every model request of the instruction is
\* given the whole Conversation State of that moment, in order, which
\* starts with the system message and the instruction.
C29_AppendOnlyFullContext ==
    [][\A c \in Slots :
          LET a == calls'[c].agent IN
          /\ (Active(calls[c]) /\ calls'[c].op = calls[c].op) =>
                /\ IsPrefix(agents[a], agents'[a])
                /\ Len(agents'[a]) <= Len(agents[a]) + 2
          /\ Requests1(c) =>
                /\ calls'[c].sent = agents'[a]
                /\ Len(calls'[c].sent) >= 2
                /\ calls'[c].sent[1] =
                       [role |-> "system", content |-> getSystemPrompt]
                /\ calls'[c].sent[2] =
                       [role |-> "user",
                        content |-> calls'[c].instruction.text]]_vars

\* the request of a third turn: the prompt, the instruction, two replies
\* and two Observations
C29_Witness ==
    \E c \in Slots :
        /\ calls[c].turns = 3
        /\ calls[c].pc \in {"awaitModel", "awaitChunk"}
        /\ Len(calls[c].sent) = 6
        /\ calls[c].sent = HistoryOf(calls[c])

\* C30: in a stream, the contents of the assistant events of a turn,
\* concatenated in emission order, are the content of the assistant message
\* appended for that turn; that text is what the Action Parser is given,
\* and on the final turn it is the content of the complete event.
C30_ChunksReconstructMessage ==
    \A c \in Slots :
        LET call == calls[c]
            n == Len(call.events)
        IN
        /\ (call.mode = "stream" /\ call.pc = "awaitChunk") =>
              AssistantRun(call.events, n) = call.assistantResponse
        /\ (call.mode = "stream" /\ call.pc \in {"atToolCall", "atComplete"}) =>
              /\ Last(HistoryOf(call)).role = "assistant"
              /\ AssistantRun(call.events, n - 1)
                     = Last(HistoryOf(call)).content
              /\ call.assistantResponse = Last(HistoryOf(call)).content
              /\ call.pc = "atToolCall" =>
                    /\ call.toolCall = Parse(call.assistantResponse)
                    /\ call.events[n].type = "toolCall"
              /\ call.pc = "atComplete" =>
                    /\ ~Parse(call.assistantResponse).found
                    /\ call.events[n] =
                           CompleteEvent(Last(HistoryOf(call)).content)

\* the complete event of a second turn whose text came in two parts
C30_Witness ==
    \E c \in Slots :
        LET n == Len(calls[c].events) IN
        /\ calls[c].pc = "atComplete"
        /\ calls[c].turns = 2
        /\ n >= 3
        /\ calls[c].events[n - 1].type = "assistant"
        /\ calls[c].events[n - 2].type = "assistant"
        /\ calls[c].events[n].content
               = calls[c].events[n - 2].content \o calls[c].events[n - 1].content

\* the tool the call awaited failed
ToolFailed(call) == call.outcome \in {"raised", "raisedBare", "unserializable"}

\* C31: in a stream a tool that fails is reported by an observation event
\* that holds the error description; no error event is emitted because of
\* a tool failure: every error event is the last event of its stream and
\* tells that the turn budget is used up.
C31_ToolFailureIsObservation ==
    \A c \in Slots :
        LET call == calls[c] IN
        call.mode = "stream" =>
            /\ \A i \in 1..Len(call.events) :
                  call.events[i].type = "error" =>
                      /\ i = Len(call.events)
                      /\ call.pc = "done"
                      /\ call.events[i] = ErrorEvent(ExhaustedError)
            /\ ToolFailed(call) =>
                  \E i \in 1..Len(call.events) :
                      /\ call.events[i].type = "observation"
                      /\ Head(call.events[i].content) = "Error executing tool "

\* C32: with deterministic model and tool stubs, a buffered call and a
\* streamed call that ran the same instruction on fresh sessions have made
\* the same number of model requests and of tool dispatches and have left
\* the same messages in the same order, also when a reply is empty.
C32_SameStateMachine ==
    \A b \in Slots, s \in Slots :
        (/\ calls[b].mode = "buffered" /\ calls[b].pc = "done"
         /\ calls[s].mode = "stream" /\ calls[s].pc = "done"
         /\ calls[b].created /\ calls[s].created
         /\ calls[b].instruction = calls[s].instruction)
        => /\ HistoryOf(calls[b]) = HistoryOf(calls[s])
           /\ calls[b].modelCalls = calls[s].modelCalls
           /\ calls[b].dispatches = calls[s].dispatches

\* system message, user instruction, then assistant messages and
\* Observation messages in turn, starting with an assistant message
Shaped(hist) ==
    /\ Len(hist) >= 2
    /\ hist[1].role = "system"
    /\ hist[2].role = "user"
    /\ \A i \in 3..Len(hist) :
          IF i % 2 = 1
          THEN hist[i].role = "assistant"
          ELSE /\ hist[i].role = "user"
               /\ hist[i].content # << >>
               /\ Head(hist[i].content) = "Observation: "

\* no later call has run on the session of the call
LatestOnSession(c) ==
    \A d \in Slots \ {c} :
        (calls[d].pc # "idle" /\ calls[d].agent = calls[c].agent)
            => calls[d].op < calls[c].op

\* C33: after an instruction that ended on a session without overlapping
\* calls, the history is the system message, the instruction, then pairs
\* of an assistant message and an Observation message, and at most one
\* last assistant message; no two assistant messages are adjacent, there
\* are as many assistant messages as model requests of the call, and at
\* most 2 + 2 * 15 messages.
C33_HistoryShape ==
    \A c \in Slots :
        (calls[c].pc = "done" /\ LatestOnSession(c)) =>
            LET hist == HistoryOf(calls[c]) IN
            /\ Shaped(hist)
            /\ \A i \in 1..(Len(hist) - 1) :
                  ~(hist[i].role = "assistant" /\ hist[i + 1].role = "assistant")
            /\ CountOf([i \in 1..Len(hist) |-> [type |-> hist[i].role]],
                       "assistant") = calls[c].modelCalls
            /\ Len(hist) <= 2 + 2 * MaxTurns

\* the call was refused by the validation of the instruction
RejectedByValidation(call) ==
    /\ call.pc = "rejected"
    /\ call.error \in {RequiredError, NotAStringError}

\* C34: a call that the validation of the instruction rejects, at the
\* facade or in the agent, leaves the session store as it was and has no
\* event: no session is created for it and no session event is emitted.
C34_RejectedLeavesNothing ==
    [][\A c \in Slots :
          (Starts(c) /\ RejectedByValidation(calls'[c])) =>
              /\ sessions' = sessions
              /\ agents' = agents
              /\ calls'[c].events = << >>]_vars

\* the session of the call has been cleaned up while the call is in flight
CleanedUp(call) == Active(call) /\ call.agent \notin sessions

\* C35: once cleanupSession has removed a session, no call makes a further
\* model request or tool dispatch for it, also when the call was suspended
\* on a model or tool call at the time of the cleanup.
C35_NothingAfterCleanup ==
    [][\A c \in Slots :
          CleanedUp(calls[c]) =>
              /\ calls'[c].modelCalls = calls[c].modelCalls
              /\ calls'[c].dispatches = calls[c].dispatches]_vars

\* C35 as amended: cleanupSession only takes the session out of the store.
\* The step that removes a session changes no call and no history, and
\* while a call goes on for a removed session the session stays out of the
\* store.
C35_CleanupOnlyRemoves ==
    /\ [][(sessions' # sessions /\ sessions' \subseteq sessions) =>
             /\ calls' = calls
             /\ agents' = agents]_vars
    /\ [][\A c \in Slots :
             CleanedUp(calls[c]) => calls[c].agent \notin sessions']_vars

\* a call that waits for a tool after its second model request while its
\* session is out of the store
C35_Witness ==
    \E c \in Slots :
        /\ CleanedUp(calls[c])
        /\ calls[c].pc = "awaitTool"
        /\ calls[c].modelCalls = 2

\* the final events among those written to the response
FinalWritten(call) ==
    {i \in 1..Len(call.written) : Terminal(call.written[i])}

\* C36: the HTTP handler of a stream writes at most one complete or error
\* event and nothing after it: it reads no further event once the response
\* has ended, and when the stream throws it writes exactly one error
\* event, with the message of the failure, and ends the response.
C36_OneFinalWritten ==
    /\ [](\A c \in Slots :
            LET call == calls[c] IN
            /\ Cardinality(FinalWritten(call)) <= 1
            /\ \A i \in FinalWritten(call) : i = Len(call.written)
            /\ (call.ended /\ call.error # RequiredError)
                  <=> FinalWritten(call) # {}
            /\ (call.ended /\ call.pc = "rejected"
                  /\ call.error # RequiredError
                  /\ call.read = Len(call.events))
                  => Last(call.written) = ErrorEvent(call.error))
    /\ [][\A c \in Slots :
             (calls[c].ended /\ calls'[c].op = calls[c].op) =>
                 /\ calls'[c].events = calls[c].events
                 /\ calls'[c].modelCalls = calls[c].modelCalls
                 /\ calls'[c].written = calls[c].written
                 /\ calls'[c].read = calls[c].read
                 /\ calls'[c].ended]_vars

\* the stream threw after the handler had written events of it, and the
\* handler has written the error event of the failure last
C36_Witness ==
    \E c \in Slots :
        /\ calls[c].ended
        /\ calls[c].pc = "rejected"
        /\ Len(calls[c].written) > 2
        /\ Last(calls[c].written) = ErrorEvent(ProviderError)

\* C37: between two closes the shared backend is initialized at most once,
\* however the dispatches interleave: at most one initialization that has
\* not failed is started, and a tool body runs on the page of an instance
\* whose initialization has completed.
C37_InitializedOnce ==
    /\ Cardinality(browser.started \ browser.broken) <= 1
    /\ \A d \in Dispatches :
          (browser.dispatch[d].pc = "done" /\ ~browser.mock)
              => browser.dispatch[d].page \in browser.ready

\* the value the backend got is the string `text`
IsString(value, text) ==
    /\ value.type = "string"
    /\ value.text = text

\* C38: the backend method of a dispatched browser tool is called with the
\* parameter values of the action: search with the query, open with the
\* url, click with the selector, type with the selector and the text.
C38_BackendGetsValues ==
    \A d \in Dispatches :
        LET call == browser.dispatch[d] IN
        call.pc \in {"entered", "done"} =>
            /\ call.method = "search" => IsString(call.first, call.params.query)
            /\ call.method = "open" => IsString(call.first, call.params.url)
            /\ call.method = "click"
                  => IsString(call.first, call.params.selector)
            /\ call.method = "type"
                  => /\ IsString(call.first, call.params.selector)
                     /\ IsString(call.second, call.params.text)

Generated == {SessionIdOf(n) : n \in 1..nextId}

\* the call of slot c has created a session for a supplied id that the
\* store did not hold
CreatedForUnknown(c) ==
    /\ calls[c].pc # "idle"
    /\ calls[c].created
    /\ calls[c].supplied # NoId

\* C40: every key of the store is the session id of the agent stored under
\* it, an id its constructor generated; an id a caller supplied that the
\* store did not hold is never made a key; two calls that supplied the same
\* unknown id have created two different sessions.
C40_KeysAreAgentIds ==
    /\ sessions \subseteq Generated
    /\ sessions \subseteq DOMAIN agents
    /\ UnknownId \notin sessions
    /\ \A c \in Slots :
          CreatedForUnknown(c) =>
              /\ calls[c].agent # calls[c].supplied
              /\ calls[c].agent \in Generated
    /\ \A c \in Slots, d \in Slots :
          (/\ c # d
           /\ CreatedForUnknown(c) /\ CreatedForUnknown(d)
           /\ calls[c].supplied = calls[d].supplied)
          => calls[c].agent # calls[d].agent

\* two calls in flight that supplied the same unknown id, each on a session
\* of its own that the store holds
C40_Witness ==
    \E c \in Slots, d \in Slots :
        /\ c # d
        /\ Active(calls[c]) /\ Active(calls[d])
        /\ calls[c].supplied = UnknownId /\ calls[d].supplied = UnknownId
        /\ calls[c].agent # calls[d].agent
        /\ {calls[c].agent, calls[d].agent} \subseteq sessions

====
